---------------------------- MODULE Spec2Model ----------------------------
(***************************************************************************)
(* Model of the claim verification pipeline of dokopalsya_bot:             *)
(*   app/factcheck/extractor.py   extract_claims                           *)
(*   app/factcheck/factcheck.py   fact_check_tools, verify_single_claim,   *)
(*                                verify_multiple_claims,                  *)
(*                                process_fact_check_session               *)
(*   app/models/claim_models.py   Claim, ExtractedClaims,                  *)
(*                                VerificationResult, FactCheckSession     *)
(*   app/utils/litellm_utils.py   perform_litellm_completion               *)
(*   app/factcheck/tools/perplexity.py  perplexity_claim_check and its     *)
(*                                retry loop                               *)
(*   app/factcheck/tools/google.py      google_claim_check                 *)
(*   app/utils/prompt_utils.py    get_prompt and the prompt cache          *)
(*                                                                         *)
(* The specifications share the variables:                                 *)
(*   SpecExtract   calls of extract_claims, one after the other            *)
(*   Spec          one call of verify_multiple_claims or of                *)
(*                 process_fact_check_session, with the tool registry      *)
(*   SpecVerifier  calls of the two verifiers, one after the other         *)
(*   SpecRegistry  calls of register_fact_check_tool                       *)
(*   SpecTwo       two concurrent calls of verify_multiple_claims          *)
(***************************************************************************)
EXTENDS Integers, Sequences, FiniteSets, TLC

VARIABLES
    \* ---- extract_claims (extractor.py) ----
    ex_pc,            \* "idle" | "awaiting" | "returned" | "raised"
    ex_text,          \* the text argument of the running/last call
    ex_prompt,        \* what get_prompt did in the running/last call
    ex_response,      \* what the completion call did in the running/last call
    ex_completions,   \* completion requests issued by the running/last call
    ex_result,        \* the list of Claim the last call returned
    ex_calls,         \* calls of extract_claims made so far
    next_uuid,        \* uuid4 values handed out so far (Claim.id default_factory)
    ex_earlier_ids,   \* ids of the Claims the calls before this one created
    \* ---- factcheck.py ----
    FACT_CHECK_TOOL,  \* app.config.FACT_CHECK_TOOL
    fact_check_tools, \* the registry: tool name -> tool
    registrations,    \* calls of register_fact_check_tool made so far
    entry,            \* per call: which function was called
    pc,               \* per call: "idle" | "gathering" | "returned" | "raised"
    claims,           \* per call: the claims argument of verify_multiple_claims
    concurrency_limit,\* per call: the concurrency_limit argument
    semaphore,        \* per call: the value of the asyncio.Semaphore
    task,             \* per call: state of each sem_verify_claim task
    task_tool,        \* per call: the tool each running task awaits
    outcome,          \* per call: how verify_single_claim ended for each claim
    results,          \* per call: the local list results
    tool_calls,       \* per call: evaluations of tool(claim, short_user_id)
    retval,           \* per call: the value returned to the caller
    session,          \* per call: the FactCheckSession argument
    \* ---- tools/perplexity.py, tools/google.py, prompt_utils.py ----
    loaded_prompts,   \* prompt_utils._loaded_prompts: the names it holds
    vf_pc,            \* "idle" | "awaiting" | "returned" | "raised"
    vf_tool,          \* the verifier called: "google" | "perplexity"
    vf_claim,         \* the claim argument of the running/last call
    vf_prompt,        \* what get_prompt did in the running/last call
    vf_attempt,       \* the loop variable attempt of get_perplexity_claim_reviews
    vf_requests,      \* completion/search requests issued by the running/last call
    vf_history,       \* what each request of the running/last call was answered
    vf_result,        \* the VerificationResult the last call returned
    vf_how,           \* the path on which the last call ended
    vf_calls,         \* calls of a verifier made so far
    \* ---- prompt_utils.py: reload_prompts ----
    last_reload_time, \* prompt_utils._last_reload_time
    now,              \* the clock datetime.now() reads, in minutes
    pr_pc,            \* how the last call of reload_prompts ended
    pr_contacts,      \* loads requested from the prompt service so far
    \* ---- handlers/messages.py: split_message ----
    sm_pc,            \* "idle" | "returned"
    sm_text,          \* the text argument, a sequence of characters
    sm_max_length,    \* the max_length argument
    sm_chunks,        \* the list split_message returned
    \* ---- handlers/messages.py: the message handler ----
    h_pc,             \* "idle" | "processing" | "done"
    h_replies,        \* the replies sent for the message, in order
    h_processed,      \* the session process_fact_check_session returned
    h_response        \* response_lines of the results response

exVars == <<ex_pc, ex_text, ex_prompt, ex_response, ex_completions, ex_result,
            ex_calls, next_uuid, ex_earlier_ids>>
fcVars == <<FACT_CHECK_TOOL, fact_check_tools, registrations, entry, pc, claims,
            concurrency_limit, semaphore, task, task_tool, outcome, results,
            tool_calls, retval, session>>
vfVars == <<loaded_prompts, vf_pc, vf_tool, vf_claim, vf_prompt, vf_attempt,
            vf_requests, vf_history, vf_result, vf_how, vf_calls>>
prVars == <<last_reload_time, now, pr_pc, pr_contacts>>
smVars == <<sm_pc, sm_text, sm_max_length, sm_chunks>>
hVars == <<h_pc, h_replies, h_processed, h_response>>
auxVars == <<prVars, smVars, hVars>>
vars == <<exVars, fcVars, vfVars, auxVars>>

\* None where the other values are strings, and None of an Optional field
\* of a model (a field holds NoneOpt or Some(x)).
None == "None"
NoneOpt == {}
Some(x) == {x}

\* ---------------------------------------------------------------- bounds
MaxExtractCalls == 2
MaxClaims == 3
MaxLimit == 2
MaxRegistrations == 1
MaxRegistrySeq == 3
TwoMaxClaims == 2
TwoMaxLimit == 2
MaxVerifierCalls == 2
LiveMaxClaims == 2
LiveMaxLimit == 2
MaxTime == 3
MaxPromptLoads == 3
MaxRenderClaims == 3
MaxTextLen == 4
MaxSplitLength == 3

\* ------------------------------------------------------------ JSON values
\* What json.loads / json_repair.loads return, tagged by Python type.
JStr(s) == [t |-> "str", s |-> s]
JNum(k) == [t |-> "num", k |-> k]
JNull == [t |-> "null"]
JList(items) == [t |-> "list", items |-> items]
JDict(f) == [t |-> "dict", f |-> f]

Field1(k, v) == [x \in {k} |-> v]
Field3(c) == [x \in {"original", "english", "claims"} |->
                IF x = "claims" THEN c ELSE JStr(x)]

\* The payloads a model response can denote.
Payloads ==
    { JDict(Field3(JList(<<JStr("a"), JStr("b")>>))),
      JDict(Field3(JList(<<JStr("a")>>))),
      JDict(Field3(JList(<<>>))),
      JDict(Field3(JList(<<JStr("a"), JNum(1)>>))),
      JDict(Field3(JStr("a"))),
      JDict(Field1("claims", JList(<<JStr("a"), JStr("b")>>))),
      JDict(Field1("foo", JStr("a"))),
      JList(<<JStr("a"), JStr("b")>>),
      JStr("a"),
      JNull }

\* message.content: None (syntax "None"), "" (syntax "empty"), or a text that
\* is valid JSON, JSON with a repairable defect (trailing comma, ...), or no
\* JSON at all ("garbage"); value is what the text denotes once read.
Raw(syntax, value) == [syntax |-> syntax, value |-> value]
TrailingCommaPayload ==
    Raw("repairable", JDict(Field1("claims", JList(<<JStr("a"), JStr("b")>>))))
Contents ==
    {Raw("None", JNull), Raw("empty", JNull), Raw("garbage", JNull)}
    \cup {Raw(sx, v) : sx \in {"valid", "repairable"}, v \in Payloads}

\* What the awaited acompletion does (litellm_utils.py:109-135) and, for a
\* text that is no JSON, what json_repair.loads does with it.
Responses ==
    {[kind |-> "api_error", repair |-> "value"],
     [kind |-> "other_error", repair |-> "value"],
     [kind |-> "no_choices", repair |-> "value"]}
    \cup {[kind |-> "content", content |-> c, repair |-> r] :
            c \in Contents, r \in {"value", "raises"}}

Texts == {None, "", "text"}
PromptOutcomes == {"found", "absent", "raises"}

NoResponse == [kind |-> "none", repair |-> "value"]

\* ------------------------------------------------- extractor.py: helpers
Return(cs) == [kind |-> "return", claims |-> cs]
Raise(e) == [kind |-> "raise", error |-> e]
Await == [kind |-> "await"]

\* Mutant: only None counts as no text.
TextIsEmpty_none_only(text) == text = None

\* Python truth value of the text argument: `if not text` (extractor.py:40).
TextIsEmpty(text) == text = None \/ text = ""

\* json.loads(claims_data) (extractor.py:81): JSONDecodeError unless valid.
json_loads(raw) ==
    IF raw.syntax = "valid" THEN [ok |-> TRUE, value |-> raw.value]
    ELSE [ok |-> FALSE, value |-> JNull]

\* json_repair.loads(claims_data) (extractor.py:84): the repaired value; for
\* a text that is no JSON the library returns "" or raises.
json_repair_loads(raw, mode) ==
    IF raw.syntax \in {"valid", "repairable"} THEN [ok |-> TRUE, value |-> raw.value]
    ELSE IF mode = "raises" THEN [ok |-> FALSE, value |-> JNull]
    ELSE [ok |-> TRUE, value |-> JStr("")]

\* class ExtractedClaims: three required fields (claim_models.py:43-45);
\* validation fails when one is missing or has the wrong type.
ExtractedClaimsRequired == {"original", "english", "claims"}
ExtractedClaimsValid(f) ==
    /\ ExtractedClaimsRequired \subseteq DOMAIN f
    /\ f["original"].t = "str"
    /\ f["english"].t = "str"
    /\ f["claims"].t = "list"
    /\ \A i \in 1..Len(f["claims"].items) : f["claims"].items[i].t = "str"

\* extractor.py:93-96: the keyword arguments ExtractedClaims is built from.
ExtractedClaimsArgs(parsed) ==
    IF parsed.t = "dict" /\ "claims" \in DOMAIN parsed.f
    THEN parsed.f
    ELSE Field1("claims", IF parsed.t = "list" THEN parsed ELSE JList(<<parsed>>))

\* Mutant: the ids start again with every call.
MakeClaims_restart(items, base) ==
    [i \in 1..Len(items) |-> [id |-> i, content |-> items[i].s]]

\* [Claim(content=claim) for claim in extracted_claims.claims]: each Claim
\* takes the next uuid4 (claim_models.py:31-33).
MakeClaims(items, base) ==
    [i \in 1..Len(items) |-> [id |-> base + i, content |-> items[i].s]]

\* extractor.py:92-104: validate, build the claims; ValidationError -> [].
ValidateAndBuild(parsed, base) ==
    LET f == ExtractedClaimsArgs(parsed)
    IN IF ExtractedClaimsValid(f) THEN Return(MakeClaims(f["claims"].items, base))
       ELSE Return(<<>>)

\* extractor.py:80-90: strict parse, then repair; a failed repair -> [].
ParseContent(raw, mode, base) ==
    LET strict == json_loads(raw)
        repaired == json_repair_loads(raw, mode)
    IN IF strict.ok THEN ValidateAndBuild(strict.value, base)
       ELSE IF repaired.ok THEN ValidateAndBuild(repaired.value, base)
       ELSE Return(<<>>)

\* perform_litellm_completion (litellm_utils.py:65-137) called with a prompt:
\* the four litellm errors are logged and None is returned, any other
\* exception is logged and raised again.
perform_litellm_completion(resp) ==
    CASE resp.kind = "api_error" -> [kind |-> "None"]
      [] resp.kind = "other_error" -> [kind |-> "raise"]
      [] OTHER -> [kind |-> "response"]

\* Mutant: the outer handler lets the exception through.
ExtractExcept_reraise(e) == Raise(e)

\* extractor.py:112-119: the outer `except Exception` returns [].
ExtractExcept(e) == Return(<<>>)

\* extractor.py:46-64: the part of extract_claims before the await.
extract_claims_begin(text, prompt) ==
    IF TextIsEmpty(text) THEN Return(<<>>)
    ELSE CASE prompt = "raises" -> ExtractExcept("RuntimeError")
           [] prompt = "absent" -> Return(<<>>)
           [] OTHER -> Await

\* extractor.py:54-111: the part of extract_claims after the await.
extract_claims_resume(resp, base) ==
    LET r == perform_litellm_completion(resp)
    IN IF r.kind = "raise" THEN ExtractExcept("Exception")
       ELSE IF r.kind = "None" THEN Return(<<>>)
       ELSE IF resp.kind = "no_choices" THEN ExtractExcept("IndexError")
       ELSE IF resp.content.syntax \in {"None", "empty"} THEN Return(<<>>)
       ELSE ParseContent(resp.content, resp.repair, base)

\* --------------------------------------------- extract_claims: the calls
ExtractCall(text, prompt) ==
    /\ ex_pc = "idle"
    /\ LET r == extract_claims_begin(text, prompt)
       IN /\ ex_pc' = IF r.kind = "await" THEN "awaiting"
                      ELSE IF r.kind = "raise" THEN "raised" ELSE "returned"
          /\ ex_completions' = IF r.kind = "await" THEN 1 ELSE 0
          /\ ex_result' = <<>>
    /\ ex_text' = text
    /\ ex_prompt' = prompt
    /\ ex_response' = NoResponse
    /\ ex_calls' = ex_calls + 1
    /\ ex_earlier_ids' = ex_earlier_ids \cup {ex_result[i].id : i \in DOMAIN ex_result}
    /\ UNCHANGED <<next_uuid, fcVars, vfVars, auxVars>>

ExtractResume(resp) ==
    /\ ex_pc = "awaiting"
    /\ LET r == extract_claims_resume(resp, next_uuid)
       IN /\ ex_pc' = IF r.kind = "raise" THEN "raised" ELSE "returned"
          /\ ex_result' = IF r.kind = "raise" THEN <<>> ELSE r.claims
          /\ next_uuid' = IF r.kind = "raise" THEN next_uuid
                          ELSE next_uuid + Len(r.claims)
    /\ ex_response' = resp
    /\ UNCHANGED <<ex_text, ex_prompt, ex_completions, ex_calls, ex_earlier_ids,
                   fcVars, vfVars, auxVars>>

\* The caller calls extract_claims again.
ExtractAgain ==
    /\ ex_pc \in {"returned", "raised"}
    /\ ex_calls < MaxExtractCalls
    /\ ex_pc' = "idle"
    /\ UNCHANGED <<ex_text, ex_prompt, ex_response, ex_completions, ex_result,
                   ex_calls, next_uuid, ex_earlier_ids, fcVars, vfVars, auxVars>>

ExInit ==
    /\ ex_pc = "idle"
    /\ ex_text = None
    /\ ex_prompt = "found"
    /\ ex_response = NoResponse
    /\ ex_completions = 0
    /\ ex_result = <<>>
    /\ ex_calls = 0
    /\ next_uuid = 0
    /\ ex_earlier_ids = {}


\* ------------------------------------------------ factcheck.py: the tools
\* A tool is known by its name, the positional parameters its signature
\* requires, and whether it is a coroutine function.
GoogleParams == 1
PerplexityParams == 3
ToolCallArgs == 2
google_claim_check ==
    [name |-> "google_claim_check", params |-> GoogleParams, async |-> TRUE]
perplexity_claim_check ==
    [name |-> "perplexity_claim_check", params |-> PerplexityParams, async |-> TRUE]
\* Tools a caller registers: Callable[[Claim, str], ...], sync or async.
custom_sync == [name |-> "custom_sync", params |-> ToolCallArgs, async |-> FALSE]
custom_async == [name |-> "custom_async", params |-> ToolCallArgs, async |-> TRUE]

BuiltinTools == [n \in {"google", "perplexity"} |->
                   IF n = "google" THEN google_claim_check
                   ELSE perplexity_claim_check]

ConfigNames == {"google", "perplexity", "custom", "missing"}
RegisterNames == {"custom", "perplexity"}
RegisterTools == {custom_sync, custom_async}
\* What a tool whose body runs does: returns a result with reviews, without
\* reviews, or with an error, or raises.
ToolOutcomes == {"reviews", "no_reviews", "error", "raises"}

\* Mutant: an entry that exists is kept.
register_fact_check_tool_keep(registry, name, tool) ==
    [n \in DOMAIN registry \cup {name} |->
       IF n \in DOMAIN registry THEN registry[n] ELSE tool]

\* fact_check_tools[name] = tool (factcheck.py:42)
register_fact_check_tool(registry, name, tool) ==
    [n \in DOMAIN registry \cup {name} |-> IF n = name THEN tool ELSE registry[n]]

\* str(claim.id)
Str(id) == <<"uuid", id>>

\* Mutant: the id written into the result is not the id of the claim.
VerificationResult_other_id(claim, google, perplexity, error) ==
    [claim_id |-> Str(claim.id + 1), claim |-> claim.content,
     google_claim_reviews |-> google, perplexity_claim_reviews |-> perplexity,
     error |-> error]

VerificationResult(claim, google, perplexity, error) ==
    [claim_id |-> Str(claim.id), claim |-> claim.content,
     google_claim_reviews |-> google, perplexity_claim_reviews |-> perplexity,
     error |-> error]

\* The result a tool that honours the Verifier contract returns for claim.
ToolResult(claim, out) ==
    CASE out = "reviews" ->
           VerificationResult(claim, Some(<<"review">>), NoneOpt, NoneOpt)
      [] out = "error" ->
           VerificationResult(claim, NoneOpt, NoneOpt, Some(<<"tool error">>))
      [] OTHER -> VerificationResult(claim, NoneOpt, NoneOpt, NoneOpt)

Result(r, how) == [kind |-> "result", result |-> r, how |-> how]

\* Mutant: the membership test is skipped.
ToolUnknown_never(name, registry) == FALSE

\* `FACT_CHECK_TOOL not in fact_check_tools` (factcheck.py:58)
ToolUnknown(name, registry) == name \notin DOMAIN registry

\* factcheck.py:60-67
UnknownToolResult(claim, name) ==
    Result(VerificationResult(claim, NoneOpt, NoneOpt,
                              Some(<<"Unknown fact-check tool: ", name>>)),
           "unknown_tool")

\* Mutant: the exception of the tool is not caught.
VerifyExcept_reraise(claim, e, how) == [kind |-> "raise", how |-> how]

\* factcheck.py:77-86: `except Exception as e` builds a result from str(e).
VerifyExcept(claim, e, how) ==
    Result(VerificationResult(claim, NoneOpt, NoneOpt, Some(<<e>>)), how)

\* factcheck.py:58-75: verify_single_claim up to the call of the tool.  A call
\* with a number of arguments the signature does not accept raises TypeError
\* before the tool's body runs.
verify_single_claim_begin(claim, name, registry) ==
    IF ToolUnknown(name, registry) THEN UnknownToolResult(claim, name)
    ELSE IF name \notin DOMAIN registry THEN VerifyExcept(claim, "KeyError", "key_error")
    ELSE IF registry[name].params # ToolCallArgs
         THEN VerifyExcept(claim, "TypeError", "type_error")
    ELSE [kind |-> "call", tool |-> registry[name]]

\* factcheck.py:71-86: the tool's body has run with outcome out.
verify_single_claim_end(claim, out) ==
    IF out = "raises" THEN VerifyExcept(claim, "tool raised", "raised")
    ELSE Result(ToolResult(claim, out), out)

\* ------------------------------------- factcheck.py: verify_multiple_claims
ContentOf(i) == IF i % 2 = 1 THEN "x" ELSE "y"
ClaimList(n) == [i \in 1..n |-> [id |-> i, content |-> ContentOf(i)]]

\* asyncio.Semaphore(concurrency_limit) (factcheck.py:102)
NewSemaphore(limit) == limit

\* Mutant: one semaphore for the whole process, the one of call 1.
SemOf_shared(c) == 1

\* `semaphore` is a local variable of verify_multiple_claims
\* (factcheck.py:102): the tasks of call c use the semaphore call c created.
SemOf(c) == c
\* Mutant: a task is admitted whatever the value.
CanAcquire_always(value) == TRUE

\* `async with semaphore` admits a task while the value is positive
\* (factcheck.py:106).
CanAcquire(value) == value > 0

\* Mutant: leaving the `async with` does not give the slot back.
Release_never(value) == value

\* Leaving `async with semaphore` releases the slot (factcheck.py:106-108).
Release(value) == value + 1

\* Mutant: the list is replaced instead of extended.
AppendResult_overwrite(rs, r) == <<r>>

\* results.append(result) (factcheck.py:108)
AppendResult(rs, r) == Append(rs, r)

\* Mutant: the wait ends with the first task that is done.
GatherDone_first(ts) ==
    \E i \in DOMAIN ts : ts[i] \in {"done", "raised"}

\* asyncio.gather(*tasks, return_exceptions=False) (factcheck.py:111) is done
\* when every task is done, or as soon as one task has raised.
GatherDone(ts) ==
    \/ \A i \in DOMAIN ts : ts[i] = "done"
    \/ \E i \in DOMAIN ts : ts[i] = "raised"

Running(c) == {i \in DOMAIN task[c] : task[c][i] = "running"}

\* factcheck.py:102-111: the semaphore, the list, one task per claim.
StartVerify(c, cs, limit) ==
    /\ claims' = [claims EXCEPT ![c] = cs]
    /\ concurrency_limit' = [concurrency_limit EXCEPT ![c] = limit]
    /\ semaphore' = [semaphore EXCEPT ![SemOf(c)] = NewSemaphore(limit)]
    /\ results' = [results EXCEPT ![c] = <<>>]
    /\ task' = [task EXCEPT ![c] = [i \in 1..Len(cs) |-> "waiting"]]
    /\ task_tool' = [task_tool EXCEPT ![c] = [i \in 1..Len(cs) |-> "none"]]
    /\ outcome' = [outcome EXCEPT ![c] = [i \in 1..Len(cs) |-> "pending"]]
    /\ tool_calls' = [tool_calls EXCEPT ![c] = 0]
    /\ pc' = [pc EXCEPT ![c] = "gathering"]

\* A caller calls verify_multiple_claims(claims, short_user_id, limit).
CallVerifyMultipleClaims(c, n, limit) ==
    /\ pc[c] = "idle"
    /\ entry' = [entry EXCEPT ![c] = "verify_multiple_claims"]
    /\ StartVerify(c, ClaimList(n), limit)
    /\ UNCHANGED <<FACT_CHECK_TOOL, fact_check_tools, registrations, retval,
                   session, exVars, vfVars, auxVars>>

\* A task's verify_single_claim ended with r: the result is appended and the
\* slot released, or the exception leaves the task (releasing the slot).
TaskEnds(c, i, r, slot) ==
    /\ task' = [task EXCEPT ![c][i] = IF r.kind = "raise" THEN "raised" ELSE "done"]
    /\ results' = [results EXCEPT ![c] =
                     IF r.kind = "raise" THEN @ ELSE AppendResult(@, r.result)]
    /\ outcome' = [outcome EXCEPT ![c][i] = r.how]
    /\ semaphore' = [semaphore EXCEPT ![SemOf(c)] = slot]

\* sem_verify_claim (factcheck.py:105-108): the task is admitted and runs
\* verify_single_claim up to its first suspension.  Without a suspension
\* (unknown tool, TypeError, a synchronous tool) the task ends in this step.
TaskAcquire(c, i) ==
    /\ pc[c] # "idle"
    /\ task[c][i] = "waiting"
    /\ CanAcquire(semaphore[SemOf(c)])
    /\ LET b == verify_single_claim_begin(claims[c][i], FACT_CHECK_TOOL,
                                          fact_check_tools)
       IN IF b.kind = "call" /\ b.tool.async
          THEN /\ task' = [task EXCEPT ![c][i] = "running"]
               /\ task_tool' = [task_tool EXCEPT ![c][i] = b.tool.name]
               /\ semaphore' = [semaphore EXCEPT ![SemOf(c)] = @ - 1]
               /\ tool_calls' = [tool_calls EXCEPT ![c] = @ + 1]
               /\ UNCHANGED <<results, outcome>>
          ELSE IF b.kind = "call"
          THEN /\ \E out \in ToolOutcomes :
                    TaskEnds(c, i, verify_single_claim_end(claims[c][i], out),
                             semaphore[SemOf(c)])
               /\ tool_calls' = [tool_calls EXCEPT ![c] = @ + 1]
               /\ UNCHANGED task_tool
          ELSE /\ TaskEnds(c, i, b, semaphore[SemOf(c)])
               /\ UNCHANGED <<task_tool, tool_calls>>
    /\ UNCHANGED <<FACT_CHECK_TOOL, fact_check_tools, registrations, entry, pc,
                   claims, concurrency_limit, retval, session, exVars, vfVars, auxVars>>

\* The awaited tool of a running task returns or raises (factcheck.py:72-86),
\* then the task appends its result and leaves the `async with`.
TaskResume(c, i, out) ==
    /\ pc[c] # "idle"
    /\ task[c][i] = "running"
    /\ TaskEnds(c, i, verify_single_claim_end(claims[c][i], out),
                Release(semaphore[SemOf(c)]))
    /\ UNCHANGED <<FACT_CHECK_TOOL, fact_check_tools, registrations, entry, pc,
                   claims, concurrency_limit, task_tool, tool_calls, retval,
                   session, exVars, vfVars, auxVars>>


NoRetval == [kind |-> "none"]
NoSession == [original_text |-> "", claims |-> <<>>, verification_results |-> <<>>,
              completed_at |-> None]

\* factcheck.py:111-119: gather is done; an exception of a task propagates,
\* otherwise results is returned.  Called from process_fact_check_session
\* (factcheck.py:147-156) the results are stored in the session, completed_at
\* is stamped and the session is returned.
GatherReturn(c) ==
    /\ pc[c] = "gathering"
    /\ GatherDone(task[c])
    /\ IF \E i \in DOMAIN task[c] : task[c][i] = "raised"
       THEN /\ pc' = [pc EXCEPT ![c] = "raised"]
            /\ UNCHANGED <<retval, session>>
       ELSE IF entry[c] = "verify_multiple_claims"
       THEN /\ pc' = [pc EXCEPT ![c] = "returned"]
            /\ retval' = [retval EXCEPT ![c] = [kind |-> "results", value |-> results[c]]]
            /\ UNCHANGED session
       ELSE /\ pc' = [pc EXCEPT ![c] = "returned"]
            /\ session' = [session EXCEPT ![c].verification_results = results[c],
                                          ![c].completed_at = "datetime"]
            /\ retval' = [retval EXCEPT ![c] = [kind |-> "session"]]
    /\ UNCHANGED <<FACT_CHECK_TOOL, fact_check_tools, registrations, entry, claims,
                   concurrency_limit, semaphore, task, task_tool, outcome, results,
                   tool_calls, exVars, vfVars, auxVars>>

\* ----------------------------- factcheck.py: process_fact_check_session
\* extract_claims(text, short_user_id, trace_id) has three required
\* parameters (extractor.py:15-19); process_fact_check_session passes two
\* arguments (factcheck.py:135).  A call whose arguments do not fit the
\* signature raises TypeError.
ExtractClaimsParams == 3
PfcsExtractArgs == 2
DefaultConcurrencyLimit == 10
CallBinds(args, params) == args = params

\* extract_claims as one function of its inputs.
extract_claims(text, prompt, resp, base) ==
    LET b == extract_claims_begin(text, prompt)
    IN IF b.kind = "await" THEN extract_claims_resume(resp, base) ELSE b

\* A caller calls process_fact_check_session(session, short_user_id) with a
\* fresh session for text (factcheck.py:121-156, up to the gather).
ProcessFactCheckSession(c, text) ==
    /\ pc[c] = "idle"
    /\ entry' = [entry EXCEPT ![c] = "process_fact_check_session"]
    /\ IF ~CallBinds(PfcsExtractArgs, ExtractClaimsParams)
       THEN /\ pc' = [pc EXCEPT ![c] = "raised"]
            /\ session' = [session EXCEPT ![c] = [NoSession EXCEPT !.original_text = text]]
            /\ UNCHANGED <<claims, concurrency_limit, semaphore, task, task_tool,
                           outcome, results, tool_calls, retval, next_uuid>>
       ELSE \E prompt \in PromptOutcomes, resp \in Responses :
              LET r == extract_claims(text, prompt, resp, next_uuid)
                  s0 == [NoSession EXCEPT !.original_text = text]
              IN IF r.kind = "raise"
                 THEN /\ pc' = [pc EXCEPT ![c] = "raised"]
                      /\ session' = [session EXCEPT ![c] = s0]
                      /\ UNCHANGED <<claims, concurrency_limit, semaphore, task,
                                     task_tool, outcome, results, tool_calls,
                                     retval, next_uuid>>
                 ELSE IF r.claims = <<>>
                 THEN /\ pc' = [pc EXCEPT ![c] = "returned"]
                      /\ session' = [session EXCEPT ![c] =
                                       [s0 EXCEPT !.completed_at = "datetime"]]
                      /\ retval' = [retval EXCEPT ![c] = [kind |-> "session"]]
                      /\ UNCHANGED <<claims, concurrency_limit, semaphore, task,
                                     task_tool, outcome, results, tool_calls,
                                     next_uuid>>
                 ELSE /\ session' = [session EXCEPT ![c] = [s0 EXCEPT !.claims = r.claims]]
                      /\ next_uuid' = next_uuid + Len(r.claims)
                      /\ StartVerify(c, r.claims, DefaultConcurrencyLimit)
                      /\ UNCHANGED retval
    /\ UNCHANGED <<FACT_CHECK_TOOL, fact_check_tools, registrations, ex_pc, ex_text,
                   ex_prompt, ex_response, ex_completions, ex_result, ex_calls,
                   ex_earlier_ids, vfVars, auxVars>>

\* A caller calls register_fact_check_tool(name, tool) (factcheck.py:27-43).
Register(name, tool) ==
    /\ registrations' = registrations + 1
    /\ fact_check_tools' = register_fact_check_tool(fact_check_tools, name, tool)
    /\ UNCHANGED <<FACT_CHECK_TOOL, entry, pc, claims, concurrency_limit, semaphore,
                   task, task_tool, outcome, results, tool_calls, retval, session,
                   exVars, vfVars, auxVars>>

\* ------------------------------------------- prompt_utils.py: get_prompt
\* The members of PromptNames that the sources use (extractor.py:47,
\* perplexity.py:42).
PromptNames == {"extract_claims", "perplexity_fact_check"}
PERPLEXITY_FACT_CHECK == "perplexity_fact_check"

\* _load_prompts and _process_load_results (prompt_utils.py:40-90): loadable
\* are the names Langfuse delivers a text prompt for; with none of them
\* RuntimeError is raised (prompt_utils.py:82-88).
load_prompts(loadable) ==
    IF loadable = {} THEN [kind |-> "raise", prompts |-> {}]
    ELSE [kind |-> "ok", prompts |-> loadable]

\* get_prompt(prompt_name) (prompt_utils.py:119-135): with an empty cache
\* reload_prompts() loads (`not _loaded_prompts`, prompt_utils.py:164) and
\* stores what was loaded; then the cache is looked up.
get_prompt(prompt_name, cache, loadable) ==
    LET r == IF cache = {} THEN load_prompts(loadable)
             ELSE [kind |-> "ok", prompts |-> cache]
    IN IF r.kind = "raise"
       THEN [kind |-> "raises", cache |-> cache, reloaded |-> FALSE]
       ELSE [kind |-> IF prompt_name \in r.prompts THEN "found" ELSE "absent",
             cache |-> r.prompts, reloaded |-> cache = {}]

\* _reload_interval = timedelta(minutes=1) (prompt_utils.py:22)
reload_interval == 1

\* `(now - _last_reload_time) > _reload_interval` (prompt_utils.py:165); last
\* is NoneOpt while _last_reload_time is datetime.min (prompt_utils.py:21).
CacheExpired(t, last) == last = NoneOpt \/ \E l \in last : t - l > reload_interval

\* Mutant: the time of the attempt is stored although the load raised.
reload_prompts_stamp(cache, last, t, force, loadable) ==
    IF force \/ cache = {} \/ CacheExpired(t, last)
    THEN LET r == load_prompts(loadable)
         IN [kind |-> r.kind,
             cache |-> IF r.kind = "raise" THEN cache ELSE r.prompts,
             last |-> Some(t), contacted |-> TRUE]
    ELSE [kind |-> "ok", cache |-> cache, last |-> last, contacted |-> FALSE]

\* reload_prompts(force=force) (prompt_utils.py:145-183) at time t: when
\* should_reload holds the prompts are loaded; a load that raises leaves both
\* globals as they were, otherwise the cache is assigned (line 174) and then
\* the time (line 175).
reload_prompts(cache, last, t, force, loadable) ==
    IF force \/ cache = {} \/ CacheExpired(t, last)
    THEN LET r == load_prompts(loadable)
         IN IF r.kind = "raise"
            THEN [kind |-> "raise", cache |-> cache, last |-> last,
                  contacted |-> TRUE]
            ELSE [kind |-> "ok", cache |-> r.prompts, last |-> Some(t),
                  contacted |-> TRUE]
    ELSE [kind |-> "ok", cache |-> cache, last |-> last, contacted |-> FALSE]

\* -------------------------------------------------- tools/perplexity.py
MAX_RETRIES == 3

Field2(k1, v1, k2, v2) == [x \in {k1, k2} |-> IF x = k1 THEN v1 ELSE v2]

\* A review item that fits PerplexityClaimsReviewItem, and the payloads a
\* response can denote.
PxItem ==
    JDict(Field2("claim", JStr("x"),
                 "verification",
                 JDict(Field2("source", JList(<<>>), "conclusion", JStr("true")))))
PxReviews == JDict(Field1("claim_reviews", JList(<<PxItem>>)))
PxReviewsCited ==
    JDict(Field2("claim_reviews", JList(<<PxItem>>),
                 "citations", JList(<<JStr("p")>>)))
PxBadCited ==
    JDict(Field2("claim_reviews", JList(<<PxItem>>), "citations", JStr("p")))
PxEmpty == JDict(Field1("claim_reviews", JList(<<>>)))
PxBadItem ==
    JDict(Field1("claim_reviews", JList(<<JDict(Field1("claim", JStr("x")))>>)))
PxNoField == JDict(Field1("foo", JStr("a")))
PxBareList == JList(<<PxItem>>)

\* response.citations: absent (None), an empty list, or a list of URLs.
NoCitations == NoneOpt
PxCitations == {NoCitations, Some(<<>>), Some(<<JStr("r")>>)}

PxResponse(content, citations, repair) ==
    [kind |-> "content", content |-> content, citations |-> citations,
     repair |-> repair]

\* What a completion request of the Perplexity verifier is answered.
PxResponses ==
    {[kind |-> "api_error", repair |-> "value"],
     [kind |-> "other_error", repair |-> "value"],
     [kind |-> "no_choices", repair |-> "value"]}
    \cup {PxResponse(Raw("None", JNull), NoCitations, r) : r \in {"value", "raises"}}
    \cup {PxResponse(Raw("garbage", JNull), NoCitations, r) : r \in {"value", "raises"}}
    \cup {PxResponse(Raw("valid", v), NoCitations, "value") :
            v \in {PxReviews, PxReviewsCited, PxEmpty, PxBadItem, PxNoField,
                   PxBareList}}
    \cup {PxResponse(Raw("valid", PxReviews), c, "value") : c \in PxCitations}
    \cup {PxResponse(Raw("valid", v), c, "value") :
            v \in {PxReviewsCited, PxBadCited}, c \in PxCitations}
    \cup {PxResponse(Raw("valid", v), Some(<<JStr("r")>>), "value") :
            v \in {PxNoField, PxBareList}}
    \cup {PxResponse(Raw("repairable", PxReviews), NoCitations, "value")}

\* PerplexityVerification, PerplexityClaimsReviewItem, PerplexityResponse
\* (claim_models.py:74-87): required fields and their types.
PerplexityVerificationValid(v) ==
    /\ v.t = "dict"
    /\ {"source", "conclusion"} \subseteq DOMAIN v.f
    /\ v.f["source"].t = "list"
    /\ \A i \in 1..Len(v.f["source"].items) : v.f["source"].items[i].t = "dict"
    /\ v.f["conclusion"].t = "str"
PerplexityClaimsReviewItemValid(v) ==
    /\ v.t = "dict"
    /\ {"claim", "verification"} \subseteq DOMAIN v.f
    /\ v.f["claim"].t = "str"
    /\ PerplexityVerificationValid(v.f["verification"])
PerplexityClaimsReviewValid(f) ==
    /\ "claim_reviews" \in DOMAIN f
    /\ f["claim_reviews"].t = "list"
    /\ \A i \in 1..Len(f["claim_reviews"].items) :
          PerplexityClaimsReviewItemValid(f["claim_reviews"].items[i])
    /\ "citations" \in DOMAIN f =>
          \/ f["citations"].t = "null"
          \/ /\ f["citations"].t = "list"
             /\ \A i \in 1..Len(f["citations"].items) :
                   f["citations"].items[i].t = "str"

\* PerplexityClaimsReview(**parsed_content) once validated.
PerplexityClaimsReview(f) ==
    [claim_reviews |-> f["claim_reviews"].items,
     citations |-> IF "citations" \in DOMAIN f /\ f["citations"].t = "list"
                   THEN Some(f["citations"].items) ELSE NoneOpt]

\* Mutant: citations of the payload are kept when the payload has them.
MergeCitations_absent(f, citations) ==
    IF citations = NoneOpt \/ citations = Some(<<>>) \/ "citations" \in DOMAIN f
    THEN f
    ELSE [k \in DOMAIN f \cup {"citations"} |->
            IF k = "citations" THEN JList(CHOOSE c \in citations : TRUE) ELSE f[k]]

\* `if citations: parsed_content['citations'] = citations`
\* (perplexity.py:83-84)
MergeCitations(f, citations) ==
    IF citations = NoneOpt \/ citations = Some(<<>>) THEN f
    ELSE [k \in DOMAIN f \cup {"citations"} |->
            IF k = "citations" THEN JList(CHOOSE c \in citations : TRUE) ELSE f[k]]

\* parse_raw_content (perplexity.py:64-90): the validated review, ValueError,
\* or whatever json_repair.loads raises.
parse_raw_content(raw_content, citations, mode) ==
    LET r == json_repair_loads(raw_content, mode)
    IN IF ~r.ok THEN Raise("Exception")
       ELSE IF r.value.t # "dict" THEN Raise("ValueError")
       ELSE IF "claim_reviews" \notin DOMAIN r.value.f THEN Raise("ValueError")
       ELSE LET f == MergeCitations(r.value.f, citations)
            IN IF PerplexityClaimsReviewValid(f)
               THEN [kind |-> "return", review |-> PerplexityClaimsReview(f)]
               ELSE Raise("ValueError")

\* Mutant: every attempt is treated as the last.
IsFinalAttempt_always(attempt) == TRUE

\* `attempt == MAX_RETRIES - 1` (perplexity.py:135, 152)
IsFinalAttempt(attempt) == attempt = MAX_RETRIES - 1

\* Mutant: the loop runs once more.
LoopContinues_once_more(attempt) == attempt + 1 <= MAX_RETRIES

\* `for attempt in range(MAX_RETRIES)` (perplexity.py:100): another
\* iteration follows the one numbered attempt.
LoopContinues(attempt) == attempt + 1 < MAX_RETRIES

Retry == [kind |-> "retry"]

\* perplexity.py:145-153: the handler of the loop body's try.
AttemptExcept(attempt, e) ==
    IF IsFinalAttempt(attempt) THEN Raise(e) ELSE Retry

\* One iteration of the loop of get_perplexity_claim_reviews
\* (perplexity.py:100-155) with the answer to its request: the review is
\* returned, an exception leaves the function, or the loop goes on; after
\* the last iteration ValueError is raised (perplexity.py:155).
get_perplexity_claim_reviews(resp, attempt) ==
    LET r == perform_litellm_completion(resp)
        next == IF LoopContinues(attempt) THEN Retry
                ELSE Raise("No valid response from fact-check service")
    IN IF r.kind = "raise" THEN AttemptExcept(attempt, "Exception")
       ELSE IF r.kind = "None" \/ resp.kind = "no_choices" THEN next
       ELSE LET p == parse_raw_content(resp.content, resp.citations, resp.repair)
            IN IF p.kind = "return" THEN p
               ELSE IF p.error = "ValueError" /\ ~IsFinalAttempt(attempt) THEN next
               ELSE AttemptExcept(attempt, p.error)

\* create_verification_result (perplexity.py:157-180)
create_verification_result(claim, perplexity_claim_reviews, error) ==
    VerificationResult(claim, NoneOpt, perplexity_claim_reviews, error)

\* Mutant: the verifier lets the exception through.
PerplexityExcept_reraise(claim, e) == [kind |-> "raise", how |-> "error"]

\* perplexity.py:59-62: `except Exception as e` of perplexity_claim_check.
PerplexityExcept(claim, e) ==
    Result(create_verification_result(claim, NoneOpt,
                                      Some(<<"Error during fact-check: ", e>>)),
           "error")

\* Mutant: an empty list of reviews is returned as reviews.
ReviewsEmpty_never(review) == FALSE

\* `if not perplexity_claims_review.claim_reviews` (perplexity.py:55)
ReviewsEmpty(review) == review.claim_reviews = <<>>

\* perplexity.py:42-45: the prompt lookup, outside the try; g is what
\* get_prompt did.
perplexity_claim_check_begin(claim, g) ==
    CASE g.kind = "raises" -> [kind |-> "raise", how |-> "prompt"]
      [] g.kind = "absent" ->
           Result(create_verification_result(claim, NoneOpt,
                                             Some(<<"Prompt not found">>)),
                  "prompt")
      [] OTHER -> Await

\* Mutant: the empty review object is kept next to the error.
perplexity_claim_check_end_keep(claim, r) ==
    IF r.kind = "raise" THEN PerplexityExcept(claim, r.error)
    ELSE IF ReviewsEmpty(r.review)
    THEN Result(create_verification_result(claim, Some(r.review),
                                           Some(<<"No claim reviews returned">>)),
                "no_reviews")
    ELSE Result(create_verification_result(claim, Some(r.review), NoneOpt),
                "reviews")

\* perplexity.py:47-62: get_perplexity_claim_reviews has returned or raised.
perplexity_claim_check_end(claim, r) ==
    IF r.kind = "raise" THEN PerplexityExcept(claim, r.error)
    ELSE IF ReviewsEmpty(r.review)
    THEN Result(create_verification_result(claim, NoneOpt,
                                           Some(<<"No claim reviews returned">>)),
                "no_reviews")
    ELSE Result(create_verification_result(claim, Some(r.review), NoneOpt),
                "reviews")

\* ------------------------------------------------------ tools/google.py
GoogleReview(withUrl) ==
    JDict([k \in {"publisher", "title", "textualRating", "languageCode"}
                 \cup (IF withUrl THEN {"url"} ELSE {}) |->
             IF k = "publisher" THEN JDict(Field1("site", JStr("s"))) ELSE JStr(k)])
GoogleClaimData(reviews) == JDict(Field1("GoogleClaimReview", JList(reviews)))

\* What build(...) and request.execute() do (google.py:24-28): build raises,
\* execute raises HttpError or another exception, or execute returns the
\* response body.
GoogleResponses ==
    {[kind |-> "build_error"], [kind |-> "http_error"], [kind |-> "other_error"]}
    \cup {[kind |-> "response", body |-> b] :
            b \in { Field1("kind", JStr("empty")),
                    Field1("claims", JList(<<>>)),
                    Field1("claims", JList(<<JDict(Field1("text", JStr("t")))>>)),
                    Field1("claims", JList(<<GoogleClaimData(<<GoogleReview(TRUE)>>)>>)),
                    Field1("claims", JList(<<JDict(Field1("text", JStr("t"))),
                                             GoogleClaimData(<<GoogleReview(TRUE),
                                                               GoogleReview(TRUE)>>)>>)),
                    Field1("claims", JList(<<GoogleClaimData(<<GoogleReview(FALSE)>>)>>)) }}

\* claim_data.get("GoogleClaimReview", []) (google.py:33)
ReviewsOf(claim_data) ==
    IF "GoogleClaimReview" \in DOMAIN claim_data.f
    THEN claim_data.f["GoogleClaimReview"].items ELSE <<>>

\* google.py:32-33: the reviews of all claims of the response, in order.
RECURSIVE AllReviews(_)
AllReviews(cs) ==
    IF cs = <<>> THEN <<>> ELSE ReviewsOf(Head(cs)) \o AllReviews(Tail(cs))

\* google.py:35-46: the keys the GoogleClaimReview is built from; a missing
\* one raises KeyError.
GoogleReviewBuilds(rv) ==
    /\ {"publisher", "url", "title", "textualRating", "languageCode"}
          \subseteq DOMAIN rv.f
    /\ "site" \in DOMAIN rv.f["publisher"].f

\* Mutant: the exception is not caught.
GoogleExcept_reraise(claim, e) == [kind |-> "raise", how |-> "error"]

\* google.py:57-76: both handlers return a result with error = str(e).
GoogleExcept(claim, e) ==
    Result(VerificationResult(claim, NoneOpt, NoneOpt, Some(<<e>>)), "error")

\* The search requests executed by one call: request.execute() runs once,
\* unless build raised before it (google.py:24-28).
SearchRequests(g) == IF g.kind = "build_error" THEN 0 ELSE 1

\* google_claim_check (google.py:13-76)
google_claim_check_body(claim, g) ==
    IF g.kind # "response" THEN GoogleExcept(claim, g.kind)
    ELSE LET rs == IF "claims" \in DOMAIN g.body /\ g.body["claims"].items # <<>>
                   THEN AllReviews(g.body["claims"].items) ELSE <<>>
         IN IF \E i \in DOMAIN rs : ~GoogleReviewBuilds(rs[i])
            THEN GoogleExcept(claim, "KeyError")
            ELSE Result(VerificationResult(claim,
                                           IF rs = <<>> THEN NoneOpt ELSE Some(rs),
                                           NoneOpt, NoneOpt),
                        IF rs = <<>> THEN "no_reviews" ELSE "reviews")

\* --------------------------------------------- the verifiers: the calls
VfClaims == {[id |-> 1, content |-> "x"], [id |-> 2, content |-> "y"]}
NoClaim == [id |-> 0, content |-> ""]

\* The call has ended with r: a result is returned or an exception leaves it.
VerifierEnds(r) ==
    /\ vf_pc' = IF r.kind = "raise" THEN "raised" ELSE "returned"
    /\ vf_result' = IF r.kind = "raise" THEN NoneOpt ELSE Some(r.result)
    /\ vf_how' = r.how

\* A caller calls perplexity_claim_check(claim, short_user_id, trace_id).
CallPerplexity(claim, loadable) ==
    /\ vf_pc = "idle"
    /\ LET g == get_prompt(PERPLEXITY_FACT_CHECK, loaded_prompts, loadable)
           b == perplexity_claim_check_begin(claim, g)
       IN /\ loaded_prompts' = g.cache
          /\ last_reload_time' = IF g.reloaded THEN Some(now) ELSE last_reload_time
          /\ pr_contacts' = IF loaded_prompts = {} THEN pr_contacts + 1
                            ELSE pr_contacts
          /\ vf_prompt' = g.kind
          /\ IF b.kind = "await"
             THEN vf_pc' = "awaiting" /\ vf_result' = NoneOpt /\ vf_how' = "none"
             ELSE VerifierEnds(b)
          /\ vf_requests' = IF b.kind = "await" THEN 1 ELSE 0
    /\ vf_tool' = "perplexity"
    /\ vf_claim' = claim
    /\ vf_attempt' = 0
    /\ vf_history' = <<>>
    /\ vf_calls' = vf_calls + 1
    /\ UNCHANGED <<now, pr_pc, smVars, hVars, exVars, fcVars>>

\* The awaited completion request of the running attempt is answered.
PerplexityResume(resp) ==
    /\ vf_pc = "awaiting"
    /\ vf_tool = "perplexity"
    /\ LET r == get_perplexity_claim_reviews(resp, vf_attempt)
       IN IF r.kind = "retry"
          THEN /\ vf_attempt' = vf_attempt + 1
               /\ vf_requests' = vf_requests + 1
               /\ UNCHANGED <<vf_pc, vf_result, vf_how>>
          ELSE /\ VerifierEnds(perplexity_claim_check_end(vf_claim, r))
               /\ UNCHANGED <<vf_attempt, vf_requests>>
    /\ vf_history' = Append(vf_history, resp)
    /\ UNCHANGED <<loaded_prompts, vf_tool, vf_claim, vf_prompt, vf_calls,
                   exVars, fcVars, auxVars>>

\* A caller calls google_claim_check(claim); the function has no await, it
\* runs to its end in one step.
CallGoogle(claim, g) ==
    /\ vf_pc = "idle"
    /\ VerifierEnds(google_claim_check_body(claim, g))
    /\ vf_requests' = SearchRequests(g)
    /\ vf_tool' = "google"
    /\ vf_claim' = claim
    /\ vf_prompt' = "none"
    /\ vf_attempt' = 0
    /\ vf_history' = <<g>>
    /\ vf_calls' = vf_calls + 1
    /\ UNCHANGED <<loaded_prompts, exVars, fcVars, auxVars>>

\* The caller has taken the outcome of the call and is about to call a
\* verifier again; of the ended call only the prompt cache remains.
VerifierAgain ==
    /\ vf_pc \in {"returned", "raised"}
    /\ vf_calls < MaxVerifierCalls
    /\ vf_pc' = "idle"
    /\ vf_tool' = "none"
    /\ vf_claim' = NoClaim
    /\ vf_prompt' = "none"
    /\ vf_attempt' = 0
    /\ vf_requests' = 0
    /\ vf_history' = <<>>
    /\ vf_result' = NoneOpt
    /\ vf_how' = "none"
    /\ UNCHANGED <<loaded_prompts, vf_calls, exVars, fcVars, auxVars>>

\* A caller calls verify_single_claim(claim, short_user_id)
\* (factcheck.py:45-86): the function runs to its first suspension, the
\* awaited call of an asynchronous tool, or to its end.
CallVerifySingleClaim(claim) ==
    /\ vf_pc = "idle"
    /\ LET b == verify_single_claim_begin(claim, FACT_CHECK_TOOL, fact_check_tools)
       IN IF b.kind = "call" /\ b.tool.async
          THEN vf_pc' = "awaiting" /\ vf_result' = NoneOpt /\ vf_how' = "none"
          ELSE IF b.kind = "call"
          THEN \E out \in ToolOutcomes :
                 VerifierEnds(verify_single_claim_end(claim, out))
          ELSE VerifierEnds(b)
    /\ vf_tool' = "verify_single_claim"
    /\ vf_claim' = claim
    /\ vf_prompt' = "none"
    /\ vf_attempt' = 0
    /\ vf_requests' = 0
    /\ vf_history' = <<>>
    /\ vf_calls' = vf_calls + 1
    /\ UNCHANGED <<loaded_prompts, exVars, fcVars, auxVars>>

\* The tool awaited by verify_single_claim returns or raises
\* (factcheck.py:72-86).
VerifySingleResume(out) ==
    /\ vf_pc = "awaiting"
    /\ vf_tool = "verify_single_claim"
    /\ VerifierEnds(verify_single_claim_end(vf_claim, out))
    /\ UNCHANGED <<loaded_prompts, vf_tool, vf_claim, vf_prompt, vf_attempt,
                   vf_requests, vf_history, vf_calls, exVars, fcVars, auxVars>>

\* caches: what _loaded_prompts can hold when the first call is made.
VfInit(caches) ==
    /\ loaded_prompts \in caches
    /\ vf_pc = "idle"
    /\ vf_tool = "none"
    /\ vf_claim = NoClaim
    /\ vf_prompt = "none"
    /\ vf_attempt = 0
    /\ vf_requests = 0
    /\ vf_history = <<>>
    /\ vf_result = NoneOpt
    /\ vf_how = "none"
    /\ vf_calls = 0

\* The module prompt_utils as imported (prompt_utils.py:18-22), no call of
\* split_message, no message being handled.
PrInit ==
    /\ last_reload_time = NoneOpt
    /\ now = 0
    /\ pr_pc = "idle"
    /\ pr_contacts = 0
SmInit ==
    /\ sm_pc = "idle"
    /\ sm_text = <<>>
    /\ sm_max_length = 1
    /\ sm_chunks = <<>>
HInit ==
    /\ h_pc = "idle"
    /\ h_replies = <<>>
    /\ h_processed = NoSession
    /\ h_response = <<>>
AuxInit == PrInit /\ SmInit /\ HInit

\* ----------------------------------------- prompt_utils.py: the calls
\* A caller calls reload_prompts(force=force) (prompt_utils.py:145-183);
\* loadable are the names the prompt service delivers if it is asked.
ReloadPrompts(force, loadable) ==
    /\ LET r == reload_prompts(loaded_prompts, last_reload_time, now, force, loadable)
       IN /\ loaded_prompts' = r.cache
          /\ last_reload_time' = r.last
          /\ pr_pc' = IF r.kind = "raise" THEN "raised" ELSE "returned"
          /\ pr_contacts' = IF r.contacted THEN pr_contacts + 1 ELSE pr_contacts
    /\ UNCHANGED <<now, vf_pc, vf_tool, vf_claim, vf_prompt, vf_attempt,
                   vf_requests, vf_history, vf_result, vf_how, vf_calls,
                   smVars, hVars, exVars, fcVars>>

\* A minute passes on the clock datetime.now() reads.
Tick ==
    /\ now < MaxTime
    /\ now' = now + 1
    /\ UNCHANGED <<last_reload_time, pr_pc, pr_contacts, smVars, hVars, exVars,
                   fcVars, vfVars>>

\* ------------------------------------- handlers/messages.py: split_message
\* A str is a sequence of characters; the texts are made of a letter, the
\* space and the line feed.
SmTexts == UNION {[1..n -> {"a", " ", "\n"}] : n \in 0..MaxTextLen}

\* str.rstrip(): trailing whitespace is removed.
RECURSIVE rstrip(_)
rstrip(s) ==
    IF s = <<>> \/ s[Len(s)] \notin {" ", "\n"} THEN s
    ELSE rstrip(SubSeq(s, 1, Len(s) - 1))

\* str.split(sep): the pieces between the occurrences of sep, empty pieces
\* included.
RECURSIVE split(_, _)
split(s, sep) ==
    IF \A i \in DOMAIN s : s[i] # sep THEN <<s>>
    ELSE LET i == CHOOSE k \in DOMAIN s :
                     s[k] = sep /\ \A j \in 1..(k - 1) : s[j] # sep
         IN <<SubSeq(s, 1, i - 1)>> \o split(SubSeq(s, i + 1, Len(s)), sep)

\* messages.py:74-79: `for word in words`; st holds chunks and current_chunk.
RECURSIVE WordsLoop(_, _, _)
WordsLoop(words, st, max_length) ==
    IF words = <<>> THEN st
    ELSE LET word == Head(words)
         IN WordsLoop(Tail(words),
                      IF Len(st.current_chunk \o word \o <<" ">>) > max_length
                      THEN [chunks |-> Append(st.chunks, rstrip(st.current_chunk)),
                            current_chunk |-> word \o <<" ">>]
                      ELSE [chunks |-> st.chunks,
                            current_chunk |-> st.current_chunk \o word \o <<" ">>],
                      max_length)

\* messages.py:63-83: `for line in lines`.
RECURSIVE LinesLoop(_, _, _)
LinesLoop(lines, st, max_length) ==
    IF lines = <<>> THEN st
    ELSE LET line == Head(lines)
             flushed == IF st.current_chunk # <<>>
                        THEN [chunks |-> Append(st.chunks, rstrip(st.current_chunk)),
                              current_chunk |-> <<>>]
                        ELSE st
             after ==
               IF Len(st.current_chunk \o line \o <<"\n">>) > max_length
               THEN IF Len(line) > max_length
                    THEN WordsLoop(split(line, " "), flushed, max_length)
                    ELSE [chunks |-> flushed.chunks,
                          current_chunk |-> line \o <<"\n">>]
               ELSE [chunks |-> st.chunks,
                     current_chunk |-> st.current_chunk \o line \o <<"\n">>]
         IN LinesLoop(Tail(lines), after, max_length)

\* split_message(text, max_length) (messages.py:42-89)
split_message(text, max_length) ==
    IF Len(text) <= max_length THEN <<text>>
    ELSE LET st == LinesLoop(split(text, "\n"),
                             [chunks |-> <<>>, current_chunk |-> <<>>], max_length)
         IN IF st.current_chunk # <<>>
            THEN Append(st.chunks, rstrip(st.current_chunk))
            ELSE st.chunks

\* A caller calls split_message(sm_text, sm_max_length); the function has no
\* suspension.
SplitMessage ==
    /\ sm_pc = "idle"
    /\ sm_pc' = "returned"
    /\ sm_chunks' = split_message(sm_text, sm_max_length)
    /\ UNCHANGED <<sm_text, sm_max_length, prVars, hVars, exVars, fcVars, vfVars>>

\* ----------------------------- handlers/messages.py: the results response
\* A line of response_lines: the text it is made from (t names the message
\* key or the format), the number it carries, and its link.
\* messages.py:179-187: `for source in verification.source`.
RECURSIVE SourceLines(_)
SourceLines(srcs) ==
    IF srcs = <<>> THEN <<>>
    ELSE LET src == Head(srcs).f
             hasUrl == "url" \in DOMAIN src /\ src["url"].t = "str" /\ src["url"].s # ""
         IN <<[t |-> IF hasUrl THEN "source_link" ELSE "source_name", idx |-> 0,
               text |-> src["name"].s, url |-> IF hasUrl THEN src["url"].s ELSE ""]>>
            \o (IF src["content"].s # ""
                THEN <<[t |-> "blockquote", idx |-> 0, text |-> src["content"].s,
                        url |-> ""]>>
                ELSE <<>>)
            \o SourceLines(Tail(srcs))

\* Mutant: the error of the result is shown to the user.
ResultLines_show_error(total, idx, claim, result) ==
    <<[t |-> "claim", idx |-> IF total > 1 THEN idx ELSE 0, text |-> claim.content,
       url |-> ""]>>
    \o (IF result.error # NoneOpt
        THEN <<[t |-> "error", idx |-> 0,
                text |-> (CHOOSE e \in result.error : TRUE)[1], url |-> ""]>>
        ELSE <<[t |-> "no_info", idx |-> 0, text |-> "", url |-> ""]>>)

\* messages.py:158-191: the lines of one result of a claim.  The `else` of
\* line 190 belongs to the `if` on the Perplexity reviews (line 172).
ResultLines(total, idx, claim, result) ==
    LET g == result.google_claim_reviews
        p == result.perplexity_claim_reviews
        google ==
          IF g # NoneOpt /\ g # Some(<<>>)
          THEN LET review == (CHOOSE rs \in g : TRUE)[1].f
               IN <<[t |-> "verdict", idx |-> 0, text |-> review["textualRating"].s,
                     url |-> ""],
                    [t |-> "source", idx |-> 0,
                     text |-> IF "site" \in DOMAIN review["publisher"].f
                              THEN review["publisher"].f["site"].s
                              ELSE "unknown_source",
                     url |-> review["url"].s]>>
          ELSE <<>>
        perplexity ==
          IF p # NoneOpt /\ \A rv \in p : rv.claim_reviews # <<>>
          THEN LET verification ==
                     (CHOOSE rv \in p : TRUE).claim_reviews[1].f["verification"].f
               IN <<[t |-> "conclusion", idx |-> 0,
                     text |-> verification["conclusion"].s, url |-> ""]>>
                  \o (IF verification["source"].items # <<>>
                      THEN <<[t |-> "newline", idx |-> 0, text |-> "", url |-> ""],
                             [t |-> "sources_header", idx |-> 0, text |-> "",
                              url |-> ""]>>
                           \o SourceLines(verification["source"].items)
                      ELSE <<>>)
          ELSE <<[t |-> "no_info", idx |-> 0, text |-> "", url |-> ""]>>
    IN <<[t |-> "claim", idx |-> IF total > 1 THEN idx ELSE 0, text |-> claim.content,
          url |-> ""]>>
       \o google \o perplexity

\* messages.py:158: `for result in results`.
RECURSIVE ResultsLines(_, _, _, _)
ResultsLines(total, idx, claim, rs) ==
    IF rs = <<>> THEN <<>>
    ELSE ResultLines(total, idx, claim, Head(rs))
         \o ResultsLines(total, idx, claim, Tail(rs))

\* messages.py:151-198: `for idx, claim in enumerate(claims, start=1)`, from
\* claim idx on.
RECURSIVE ClaimsLines(_, _, _)
ClaimsLines(idx, cs, verification_results) ==
    IF idx > Len(cs) THEN <<>>
    ELSE LET claim == cs[idx]
             rs == SelectSeq(verification_results,
                             LAMBDA r : r.claim_id = Str(claim.id))
         IN (IF rs # <<>> THEN ResultsLines(Len(cs), idx, claim, rs)
             ELSE <<[t |-> "claim", idx |-> IF Len(cs) > 1 THEN idx ELSE 0,
                     text |-> claim.content, url |-> ""],
                    [t |-> "no_info", idx |-> 0, text |-> "", url |-> ""]>>)
            \o ClaimsLines(idx + 1, cs, verification_results)

\* messages.py:148-200: response_lines for processed_session.
BuildResponse(processed_session) ==
    <<[t |-> "results_header", idx |-> 0, text |-> "", url |-> ""]>>
    \o ClaimsLines(1, processed_session.claims,
                   processed_session.verification_results)

\* The results a processed session can hold for a claim: none, an error, no
\* reviews and no error, Google reviews, Perplexity reviews (with a source),
\* a Perplexity review object without reviews, reviews of both providers.
RenderKinds ==
    {"none", "error", "empty", "google", "perplexity", "perplexity_empty", "both"}
RenderResult(claim, kind) ==
    LET px == [claim_reviews |->
                 <<JDict(Field2("claim", JStr("x"), "verification",
                     JDict(Field2("source",
                                  JList(<<JDict([k \in {"name", "content", "url"} |->
                                                   JStr(k)])>>),
                                  "conclusion", JStr("true")))))>>,
               citations |-> NoneOpt]
        gg == <<GoogleReview(TRUE)>>
    IN CASE kind = "none" -> VerificationResult(NoClaim, NoneOpt, NoneOpt, NoneOpt)
         [] kind = "error" ->
              VerificationResult(claim, NoneOpt, NoneOpt, Some(<<"boom">>))
         [] kind = "empty" -> VerificationResult(claim, NoneOpt, NoneOpt, NoneOpt)
         [] kind = "google" -> VerificationResult(claim, Some(gg), NoneOpt, NoneOpt)
         [] kind = "perplexity" ->
              VerificationResult(claim, NoneOpt, Some(px), NoneOpt)
         [] kind = "perplexity_empty" ->
              VerificationResult(claim, NoneOpt,
                                 Some([px EXCEPT !.claim_reviews = <<>>]), NoneOpt)
         [] OTHER -> VerificationResult(claim, Some(gg), Some(px), NoneOpt)

\* The sessions process_fact_check_session can hand to the handler: n claims
\* and, for each claim, one of the results above or no result.
RenderSession(n, kinds) ==
    [NoSession EXCEPT
       !.original_text = "text",
       !.claims = ClaimList(n),
       !.verification_results =
          SelectSeq([i \in 1..n |-> RenderResult(ClaimList(n)[i], kinds[i])],
                    LAMBDA r : r.claim_id # Str(NoClaim.id)),
       !.completed_at = "datetime"]
RenderSessions ==
    UNION {{RenderSession(n, kinds) : kinds \in [1..n -> RenderKinds]} :
             n \in 1..MaxRenderClaims}

\* process_fact_check_session(session, short_user_id) has two parameters
\* (factcheck.py:121-123); the handler passes three arguments
\* (messages.py:145).
PfcsParams == 2
HandlerPfcsArgs == 3

\* messages.py:110-213, 215-233: extract_claims has returned or raised; the
\* handler sends its replies up to the end of the message.  tg tells whether
\* the first reply raises TelegramAPIError.
HandlerContinue(tg) ==
    /\ h_pc = "idle"
    /\ ex_pc \in {"returned", "raised"}
    /\ h_pc' = "done"
    /\ IF tg = "error"
       THEN h_replies' = <<"telegram_error">> /\ UNCHANGED <<h_processed, h_response>>
       ELSE IF ex_pc = "raised"
       THEN h_replies' = <<"extraction_error">> /\ UNCHANGED <<h_processed, h_response>>
       ELSE IF ex_result = <<>>
       THEN h_replies' = <<"no_claims">> /\ UNCHANGED <<h_processed, h_response>>
       ELSE IF \/ ~CallBinds(HandlerPfcsArgs, PfcsParams)
               \/ ~CallBinds(PfcsExtractArgs, ExtractClaimsParams)
       THEN /\ h_replies' = <<"claims_found", "unexpected_error">>
            /\ UNCHANGED <<h_processed, h_response>>
       ELSE \E processed \in RenderSessions :
               /\ h_processed' = processed
               /\ h_response' = BuildResponse(processed)
               /\ h_replies' = <<"claims_found", "results">>
    /\ UNCHANGED <<prVars, smVars, exVars, fcVars, vfVars>>

\* The next message arrives.
HandlerAgain ==
    /\ h_pc = "done"
    /\ ex_calls < MaxExtractCalls
    /\ h_pc' = "idle"
    /\ h_replies' = <<>>
    /\ h_processed' = NoSession
    /\ h_response' = <<>>
    /\ ex_pc' = "idle"
    /\ UNCHANGED <<ex_text, ex_prompt, ex_response, ex_completions, ex_result,
                   ex_calls, next_uuid, ex_earlier_ids, prVars, smVars, fcVars,
                   vfVars>>

\* messages.py:148-213 with processed_session = h_processed: the response is
\* built and sent.
SendResults ==
    /\ h_pc = "processing"
    /\ h_response' = BuildResponse(h_processed)
    /\ h_replies' = Append(h_replies, "results")
    /\ h_pc' = "done"
    /\ UNCHANGED <<h_processed, prVars, smVars, exVars, fcVars, vfVars>>

\* ------------------------------------------------------- specifications
\* registry and regs: the registry and the number of registrations made
\* when the first call is made.
FcInitIn(calls, names, registry, regs) ==
    /\ FACT_CHECK_TOOL \in names
    /\ fact_check_tools = registry
    /\ registrations = regs
    /\ entry = [c \in calls |-> "none"]
    /\ pc = [c \in calls |-> "idle"]
    /\ claims = [c \in calls |-> <<>>]
    /\ concurrency_limit = [c \in calls |-> 0]
    /\ semaphore = [c \in calls |-> 0]
    /\ task = [c \in calls |-> <<>>]
    /\ task_tool = [c \in calls |-> <<>>]
    /\ outcome = [c \in calls |-> <<>>]
    /\ results = [c \in calls |-> <<>>]
    /\ tool_calls = [c \in calls |-> 0]
    /\ retval = [c \in calls |-> NoRetval]
    /\ session = [c \in calls |-> NoSession]

\* The module as imported: the registry holds the built-in tools.
FcInit(calls, names) == FcInitIn(calls, names, BuiltinTools, 0)

SpecCalls == {1}

Init == ExInit /\ FcInit(SpecCalls, ConfigNames) /\ VfInit({{}}) /\ AuxInit

Next ==
    \/ \E name \in RegisterNames, tool \in RegisterTools :
         registrations < MaxRegistrations /\ Register(name, tool)
    \/ \E c \in DOMAIN pc, n \in 0..MaxClaims, limit \in 0..MaxLimit :
         CallVerifyMultipleClaims(c, n, limit)
    \/ \E c \in DOMAIN pc, text \in Texts \ {None} : ProcessFactCheckSession(c, text)
    \/ \E c \in DOMAIN pc : \E i \in DOMAIN task[c] : TaskAcquire(c, i)
    \/ \E c \in DOMAIN pc : \E i \in DOMAIN task[c], out \in ToolOutcomes :
         TaskResume(c, i, out)
    \/ \E c \in DOMAIN pc : GatherReturn(c)

Spec == Init /\ [][Next]_vars

ExtractInit ==
    ExInit /\ FcInit(SpecCalls, {"perplexity"}) /\ VfInit({{}}) /\ AuxInit

ExtractNext ==
    \/ \E text \in Texts, prompt \in PromptOutcomes : ExtractCall(text, prompt)
    \/ \E resp \in Responses : ExtractResume(resp)
    \/ ExtractAgain

SpecExtract == ExtractInit /\ [][ExtractNext]_vars

\* Calls of the two verifiers and of verify_single_claim, one after the
\* other; at the first call the prompt cache is empty (startup load failed,
\* main.py:117-120) or holds what the startup load stored, and the registry
\* holds the built-in tools and a tool registered as "custom".
VerifierInit ==
    /\ ExInit
    /\ \E tool \in RegisterTools :
         FcInitIn(SpecCalls, ConfigNames,
                  register_fact_check_tool(BuiltinTools, "custom", tool), 1)
    /\ VfInit(SUBSET PromptNames)
    /\ AuxInit

VerifierNext ==
    \/ \E claim \in VfClaims, loadable \in SUBSET PromptNames :
         CallPerplexity(claim, loadable)
    \/ \E resp \in PxResponses : PerplexityResume(resp)
    \/ \E claim \in VfClaims, g \in GoogleResponses : CallGoogle(claim, g)
    \/ \E claim \in VfClaims : CallVerifySingleClaim(claim)
    \/ \E out \in ToolOutcomes : VerifySingleResume(out)
    \/ VerifierAgain

SpecVerifier == VerifierInit /\ [][VerifierNext]_vars

\* Calls of register_fact_check_tool, one after the other, under names with
\* and without a built-in entry.
RegistryNames == {"google", "perplexity", "custom"}

RegistryNext ==
    \E name \in RegistryNames, tool \in RegisterTools :
       registrations < MaxRegistrySeq /\ Register(name, tool)

SpecRegistry == Init /\ [][RegistryNext]_vars

\* Two calls of verify_multiple_claims that run concurrently (two sessions on
\* one event loop), with an asynchronous tool registered as "custom" at
\* startup and configured.
TwoCalls == {1, 2}

TwoInit ==
    /\ ExInit
    /\ VfInit({{}})
    /\ AuxInit
    /\ FcInitIn(TwoCalls, {"custom"},
                register_fact_check_tool(BuiltinTools, "custom", custom_async), 1)

TwoNext ==
    \/ \E c \in DOMAIN pc, n \in 1..TwoMaxClaims, limit \in 1..TwoMaxLimit :
         CallVerifyMultipleClaims(c, n, limit)
    \/ \E c \in DOMAIN pc : \E i \in DOMAIN task[c] : TaskAcquire(c, i)
    \/ \E c \in DOMAIN pc : \E i \in DOMAIN task[c], out \in {"reviews", "raises"} :
         TaskResume(c, i, out)
    \/ \E c \in DOMAIN pc : GatherReturn(c)

SpecTwo == TwoInit /\ [][TwoNext]_vars


\* ------------------------------------------------------------- properties
Ended(c) == pc[c] \in {"returned", "raised"}
IsVmc(c) == entry[c] = "verify_multiple_claims"
IsPfcs(c) == entry[c] = "process_fact_check_session"
\* The positions of rs that hold a result for the claim with this id.
ResultsFor(rs, id) == {k \in DOMAIN rs : rs[k].claim_id = <<"uuid", id>>}
ErrorOnly(r) ==
    /\ r.error # NoneOpt
    /\ r.google_claim_reviews = NoneOpt
    /\ r.perplexity_claim_reviews = NoneOpt

\* C1: the list verify_multiple_claims returns holds exactly one result per
\* input claim: as many results as claims, and for every claim exactly one
\* result with its claim_id, whatever the limit and the interleaving.
C1_OneResultPerClaim ==
    \A c \in DOMAIN pc :
       (IsVmc(c) /\ pc[c] = "returned") =>
          /\ retval[c].kind = "results"
          /\ Len(retval[c].value) = Len(claims[c])
          /\ \A i \in DOMAIN claims[c] :
                Cardinality(ResultsFor(retval[c].value, claims[c][i].id)) = 1

\* C1 witness: a call with at least two claims and limit >= number of claims
\* has returned its results in an order other than the claims' order.
C1_Witness ==
    \E c \in DOMAIN pc :
       /\ IsVmc(c) /\ pc[c] = "returned"
       /\ Len(claims[c]) >= 2
       /\ concurrency_limit[c] >= Len(claims[c])
       /\ retval[c].value[1].claim_id = <<"uuid", claims[c][2].id>>

\* C2: the tasks inside verify_single_claim never outnumber
\* concurrency_limit, and the semaphore's value is the number of free slots,
\* so a further task is admitted only after a release.
C2_AtMostLimitRunning ==
    \A c \in DOMAIN pc :
       pc[c] # "idle" =>
          /\ Cardinality(Running(c)) <= concurrency_limit[c]
          /\ semaphore[c] = concurrency_limit[c] - Cardinality(Running(c))

\* C2 witness: every slot is taken and a task waits for one.
C2_Witness ==
    \E c \in DOMAIN pc :
       /\ pc[c] = "gathering"
       /\ concurrency_limit[c] >= 1
       /\ Cardinality(Running(c)) = concurrency_limit[c]
       /\ \E i \in DOMAIN task[c] : task[c][i] = "waiting"

\* C3: a claim whose verifier raised (in its body, or TypeError/KeyError at
\* the call) has exactly one result, with error set and no reviews; no task is cancelled or ends with an exception; a sibling
\* whose verifier returned reviews keeps them; and the call returns one
\* result per claim and never raises.
C3_VerifierRaiseIsolated ==
    \A c \in DOMAIN pc :
       IsVmc(c) =>
          /\ pc[c] # "raised"
          /\ \A i \in DOMAIN task[c] :
                /\ task[c][i] \in {"waiting", "running", "done"}
                /\ outcome[c][i] \in {"raised", "type_error", "key_error"} =>
                      /\ Cardinality(ResultsFor(results[c], claims[c][i].id)) = 1
                      /\ \A k \in ResultsFor(results[c], claims[c][i].id) :
                            ErrorOnly(results[c][k])
                /\ outcome[c][i] = "reviews" =>
                      \A k \in ResultsFor(results[c], claims[c][i].id) :
                         /\ results[c][k].error = NoneOpt
                         /\ results[c][k].google_claim_reviews # NoneOpt
          /\ pc[c] = "returned" => Len(retval[c].value) = Len(claims[c])

\* C3 witness: a returned batch in which one verifier call raised and
\* another returned reviews.
C3_Witness ==
    \E c \in DOMAIN pc :
       /\ IsVmc(c) /\ pc[c] = "returned"
       /\ \E i, j \in DOMAIN task[c] :
             outcome[c][i] = "raised" /\ outcome[c][j] = "reviews"

\* C4: verify_multiple_claims has ended only when every task is done and has
\* appended its result; no task is queued or running then.
C4_Barrier ==
    \A c \in DOMAIN pc :
       (IsVmc(c) /\ Ended(c)) =>
          \A i \in DOMAIN task[c] :
             /\ task[c][i] = "done"
             /\ ResultsFor(results[c], claims[c][i].id) # {}

\* C4 witness: a call returned after at least two tools were awaited.
C4_Witness ==
    \E c \in DOMAIN pc :
       /\ IsVmc(c) /\ pc[c] = "returned"
       /\ tool_calls[c] >= 2
       /\ \E i \in DOMAIN task[c] : task_tool[c][i] = "custom_async"

\* C5 (as claimed): process_fact_check_session never raises to its caller.
C5_SessionNeverRaises ==
    \A c \in DOMAIN pc : IsPfcs(c) => pc[c] # "raised"

\* C6 (as claimed): when process_fact_check_session returns, completed_at is
\* set and there are as many results as claims; and a call on a text that
\* yields no claim (the empty text) ends with the session completed, with
\* claims = [] and verification_results = [].
C6_SessionCompleted ==
    \A c \in DOMAIN pc :
       IsPfcs(c) =>
          /\ pc[c] = "returned" =>
                /\ session[c].completed_at # None
                /\ Len(session[c].verification_results) = Len(session[c].claims)
          /\ (Ended(c) /\ session[c].original_text = "") =>
                /\ session[c].completed_at # None
                /\ session[c].claims = <<>>
                /\ session[c].verification_results = <<>>

\* C7: while FACT_CHECK_TOOL is not a key of the registry (entries are never
\* removed, so it was not one when any task of the batch ran), every result
\* produced carries error "Unknown fact-check tool: <name>" and no reviews,
\* no tool was called, and the call does not raise; once it has returned
\* there is such a result for every claim.
C7_UnknownTool ==
    \A c \in DOMAIN pc :
       (IsVmc(c) /\ FACT_CHECK_TOOL \notin DOMAIN fact_check_tools) =>
          /\ pc[c] # "raised"
          /\ tool_calls[c] = 0
          /\ \A k \in DOMAIN results[c] :
                /\ results[c][k].error =
                      {<<"Unknown fact-check tool: ", FACT_CHECK_TOOL>>}
                /\ results[c][k].google_claim_reviews = NoneOpt
                /\ results[c][k].perplexity_claim_reviews = NoneOpt
          /\ pc[c] = "returned" =>
                \A i \in DOMAIN claims[c] :
                   ResultsFor(retval[c].value, claims[c][i].id) # {}

\* C7 witness: a batch of at least two claims returned with the configured
\* tool unknown.
C7_Witness ==
    \E c \in DOMAIN pc :
       /\ IsVmc(c) /\ pc[c] = "returned"
       /\ FACT_CHECK_TOOL \notin DOMAIN fact_check_tools
       /\ Len(retval[c].value) >= 2

ExEnded == ex_pc \in {"returned", "raised"}

\* C8 (as claimed): no completion request and an empty result for an empty
\* or None text, exactly one completion request for every non-empty text.
C8_ExactlyOneCompletion ==
    ExEnded =>
       /\ ex_text \in {None, ""} => (ex_completions = 0 /\ ex_result = <<>>)
       /\ ex_text \notin {None, ""} => ex_completions = 1

\* C8 (amended; a request is counted at the call of
\* perform_litellm_completion, extractor.py:54): never more than one
\* completion request per call; none and
\* an empty result for an empty or None text; for a non-empty text exactly
\* one when the extraction prompt is found, and none (with an empty result)
\* when the prompt lookup fails or finds no prompt.
C8_AtMostOneCompletion ==
    /\ ex_completions <= 1
    /\ ExEnded =>
          /\ ex_text \in {None, ""} => (ex_completions = 0 /\ ex_result = <<>>)
          /\ (ex_text \notin {None, ""} /\ ex_prompt = "found") => ex_completions = 1
          /\ (ex_text \notin {None, ""} /\ ex_prompt # "found") =>
                (ex_completions = 0 /\ ex_result = <<>>)

\* C8 witness: a call on a non-empty text issued its one request and
\* returned claims.
C8_Witness ==
    /\ ex_pc = "returned"
    /\ ex_text = "text"
    /\ ex_completions = 1
    /\ ex_result # <<>>

\* The payloads that are a mapping with a claims field and fail validation
\* for another reason than a missing field.
InvalidMappings ==
    { JDict(Field3(JList(<<JStr("a"), JNum(1)>>))), JDict(Field3(JStr("a"))) }

\* C9: extract_claims never raises, and returns an empty sequence after a
\* missing prompt, a completion call that fails or returns nothing, empty
\* content, JSON that cannot be repaired, and a payload that fails
\* validation.
C9_ExtractNeverRaises ==
    /\ ex_pc # "raised"
    /\ (/\ ExEnded
        /\ \/ ex_prompt # "found"
           \/ ex_response.kind \in {"api_error", "other_error", "no_choices"}
           \/ /\ ex_response.kind = "content"
              /\ \/ ex_response.content.syntax \in {"None", "empty"}
                 \/ ex_response.content.syntax = "garbage"
                 \/ ex_response.content.value \in InvalidMappings)
       => ex_result = <<>>

\* C9 witness: the completion call raised and the call returned [].
C9_Witness ==
    /\ ex_pc = "returned"
    /\ ex_response.kind = "other_error"
    /\ ex_result = <<>>

\* C10 (as claimed): the trailing-comma payload {"claims": ["a","b"],} yields
\* the two claims a and b.
C10_RepairedPayloadYieldsClaims ==
    (ExEnded /\ ex_response.kind = "content"
             /\ ex_response.content = TrailingCommaPayload) =>
       /\ Len(ex_result) = 2
       /\ ex_result[1].content = "a"
       /\ ex_result[2].content = "b"

\* C11 (as claimed): a payload that is a bare list of strings, or one string,
\* is wrapped and yields one Claim per string, in order.
C11_BarePayloadWrapped ==
    (ExEnded /\ ex_response.kind = "content"
             /\ ex_response.content.syntax \in {"valid", "repairable"}) =>
       /\ ex_response.content.value = JList(<<JStr("a"), JStr("b")>>) =>
             /\ Len(ex_result) = 2
             /\ ex_result[1].content = "a"
             /\ ex_result[2].content = "b"
       /\ ex_response.content.value = JStr("a") =>
             /\ Len(ex_result) = 1
             /\ ex_result[1].content = "a"

\* The strings of a payload with the three fields and a list of strings.
WellFormedItems ==
    { <<JStr("a"), JStr("b")>>, <<JStr("a")>>, <<>> }

\* C12: for a non-empty text and a valid response whose claims field lists n
\* strings, extract_claims returns n Claims with the strings as contents in
\* the same order; their ids differ from each other and from the id of every
\* Claim an earlier call created.
C12_OneClaimPerStringFreshIds ==
    \A items \in WellFormedItems :
       (/\ ex_pc = "returned"
        /\ ex_text \notin {None, ""}
        /\ ex_response.kind = "content"
        /\ ex_response.content = [syntax |-> "valid",
                                  value |-> JDict(Field3(JList(items)))]) =>
          /\ Len(ex_result) = Len(items)
          /\ \A i \in 1..Len(items) : ex_result[i].content = items[i].s
          /\ \A i, j \in 1..Len(ex_result) :
                i # j => ex_result[i].id # ex_result[j].id
          /\ \A i \in 1..Len(ex_result) : ex_result[i].id \notin ex_earlier_ids

\* C12 witness: the second call returned two claims after the first call had
\* created claims.
C12_Witness ==
    /\ ex_pc = "returned"
    /\ ex_calls = 2
    /\ ex_earlier_ids # {}
    /\ Len(ex_result) = 2
    /\ ex_result[1].content = "a"
    /\ ex_result[2].content = "b"

\* ------------------------------------------- properties of the verifiers
VfEnded == vf_pc \in {"returned", "raised"}
IsPerplexity == vf_tool = "perplexity"
\* The answer carries a payload that fits PerplexityClaimsReview.
PayloadValidates(resp) ==
    /\ resp.kind = "content"
    /\ resp.content.syntax \in {"valid", "repairable"}
    /\ \/ resp.content.value \in {PxReviews, PxReviewsCited, PxEmpty}
       \/ resp.content.value = PxBadCited /\ resp.citations = Some(<<JStr("r")>>)
\* The attempt failed: the call raised, there was no response, or the
\* payload did not parse or validate.
AttemptFailed(resp) == ~PayloadValidates(resp)
MalformedJson(resp) == resp.kind = "content" /\ resp.content.syntax = "garbage"
ErrorIs(r, text) ==
    /\ r.error # NoneOpt
    /\ \A e \in r.error : e[1] = text
    /\ r.google_claim_reviews = NoneOpt
    /\ r.perplexity_claim_reviews = NoneOpt

\* C13: a call of perplexity_claim_check issues at most 3 completion
\* requests whatever the answers are, and an answer whose payload validates
\* is the last one of the call: no request follows it.
C13_AtMostThreeRequests ==
    IsPerplexity =>
       /\ vf_requests <= 3
       /\ Len(vf_history) <= vf_requests
       /\ \A k \in DOMAIN vf_history :
             PayloadValidates(vf_history[k]) =>
                /\ k = Len(vf_history)
                /\ vf_requests = k
                /\ VfEnded

\* C13 witness: three requests were issued; the completion call raised, then
\* returned nothing, then a valid payload ended the call.
C13_Witness ==
    /\ IsPerplexity /\ vf_pc = "returned"
    /\ vf_requests = 3
    /\ Len(vf_history) = 3
    /\ vf_history[1].kind = "other_error"
    /\ vf_history[2].kind = "api_error"
    /\ PayloadValidates(vf_history[3])

\* C14: a failed attempt 1 or 2 does not end the call, the next request is
\* issued; and after malformed JSON on attempts 1 and 2 and a valid payload
\* with reviews on attempt 3 the result holds the reviews and no error.
C14_EarlyFailureRetried ==
    IsPerplexity =>
       /\ \A k \in DOMAIN vf_history :
             (k <= 2 /\ AttemptFailed(vf_history[k])) =>
                /\ vf_requests >= k + 1
                /\ Len(vf_history) = k => vf_pc = "awaiting"
       /\ (/\ Len(vf_history) = 3
           /\ MalformedJson(vf_history[1])
           /\ MalformedJson(vf_history[2])
           /\ vf_history[3].kind = "content"
           /\ vf_history[3].content = [syntax |-> "valid", value |-> PxReviews]) =>
             /\ vf_pc = "returned"
             /\ \E r \in vf_result :
                   /\ r.error = NoneOpt
                   /\ \E rv \in r.perplexity_claim_reviews :
                         rv.claim_reviews = <<PxItem>>

\* C14 witness: malformed JSON twice, then a valid payload; the call
\* returned.
C14_Witness ==
    /\ IsPerplexity /\ vf_pc = "returned"
    /\ Len(vf_history) = 3
    /\ MalformedJson(vf_history[1])
    /\ MalformedJson(vf_history[2])
    /\ vf_history[3].kind = "content"
    /\ vf_history[3].content = [syntax |-> "valid", value |-> PxReviews]

\* C15: a valid payload whose claim_reviews is empty ends the call: no
\* request follows it (one request in all when it answers the first), and
\* the result has error "No claim reviews returned" and no reviews.
C15_EmptyReviewsTerminal ==
    IsPerplexity =>
       \A k \in DOMAIN vf_history :
          (/\ vf_history[k].kind = "content"
           /\ vf_history[k].content = [syntax |-> "valid", value |-> PxEmpty]) =>
             /\ k = Len(vf_history)
             /\ vf_requests = k
             /\ vf_pc = "returned"
             /\ \E r \in vf_result : ErrorIs(r, "No claim reviews returned")

\* C15 witness: the first answer had no reviews, and the call returned after
\* this one request.
C15_Witness ==
    /\ IsPerplexity /\ vf_pc = "returned"
    /\ vf_requests = 1
    /\ vf_history = <<PxResponse(Raw("valid", PxEmpty), NoCitations, "value")>>

Exhausted ==
    /\ Len(vf_history) = 3
    /\ \A k \in DOMAIN vf_history : AttemptFailed(vf_history[k])

\* C16 (as claimed): after three failed attempts perplexity_claim_check
\* raises to its caller.
C16_ExhaustedRaises ==
    (IsPerplexity /\ Exhausted) => vf_pc = "raised"

\* C16 (amended): after three failed attempts perplexity_claim_check does
\* not raise: it returns a result whose error starts with "Error during
\* fact-check: " and that has no reviews.
C16_ExhaustedReturnsError ==
    (IsPerplexity /\ Exhausted) =>
       /\ vf_pc = "returned"
       /\ vf_requests = 3
       /\ \E r \in vf_result : ErrorIs(r, "Error during fact-check: ")

\* C16 witness: three attempts without a response, and the call returned.
C16_Witness ==
    /\ IsPerplexity /\ vf_pc = "returned"
    /\ Len(vf_history) = 3
    /\ \A k \in DOMAIN vf_history : vf_history[k].kind = "api_error"

\* C17 (as claimed): a call that finds no Perplexity prompt (the cache does
\* not hold it after the lookup) returns error "Prompt not found" without
\* raising and without a completion request.
C17_PromptNotFound ==
    (IsPerplexity /\ "perplexity_fact_check" \notin loaded_prompts) =>
       /\ vf_pc = "returned"
       /\ vf_requests = 0
       /\ \E r \in vf_result : ErrorIs(r, "Prompt not found")

IsGoogle == vf_tool = "google"
GoogleFailed == vf_history[1].kind \in {"build_error", "http_error", "other_error"}
\* The response lists no claim, or claims without a review.
GoogleZeroMatches ==
    /\ vf_history[1].kind = "response"
    /\ vf_history[1].body \in
          { Field1("kind", JStr("empty")), Field1("claims", JList(<<>>)),
            Field1("claims", JList(<<JDict(Field1("text", JStr("t")))>>)) }
GoogleNeverRaises ==
    /\ vf_pc = "returned"
    /\ GoogleFailed =>
          \E r \in vf_result :
             /\ r.error = {<<vf_history[1].kind>>}
             /\ r.google_claim_reviews = NoneOpt
             /\ r.perplexity_claim_reviews = NoneOpt
    /\ GoogleZeroMatches =>
          \E r \in vf_result :
             r.google_claim_reviews = NoneOpt /\ r.error = NoneOpt

\* C18 (as claimed): every call of google_claim_check executes exactly one
\* search request and returns; a failure gives a result with the error and
\* no reviews, zero matches give no reviews and no error.
C18_ExactlyOneSearch ==
    (IsGoogle /\ VfEnded) => (vf_requests = 1 /\ GoogleNeverRaises)

\* C18 (amended): at most one search request, exactly one unless building
\* the API client failed (then none); the call always returns; a failure
\* gives a result with the error and no reviews, zero matches give no
\* reviews and no error.
C18_AtMostOneSearch ==
    (IsGoogle /\ VfEnded) =>
       /\ vf_requests <= 1
       /\ vf_history[1].kind # "build_error" => vf_requests = 1
       /\ vf_history[1].kind = "build_error" => vf_requests = 0
       /\ GoogleNeverRaises

\* C18 witness: the search request failed with HttpError and the call
\* returned a result.
C18_Witness ==
    /\ IsGoogle /\ vf_pc = "returned"
    /\ vf_history[1].kind = "http_error"
    /\ vf_requests = 1

\* --------------------------------------------- properties of the registry
\* C19: every call register_fact_check_tool(name, tool) leaves the registry
\* with name mapped to tool, whatever name mapped to before, and with every
\* other name mapped as before: no other entry is added, changed or removed.
\* So after any sequence of calls a name maps to the tool last registered
\* under it.
C19_LastRegisteredWins ==
    [][\A name \in {"google", "perplexity", "custom"},
          tool \in {custom_sync, custom_async} :
          Register(name, tool) =>
             /\ DOMAIN fact_check_tools' = DOMAIN fact_check_tools \cup {name}
             /\ fact_check_tools'[name] = tool
             /\ \A n \in DOMAIN fact_check_tools \ {name} :
                   fact_check_tools'[n] = fact_check_tools[n]]_vars

\* C19 witness: after three registrations the built-in entry of perplexity
\* is replaced by a registered tool, custom maps to another registered tool
\* and google still maps to its built-in tool.
C19_Witness ==
    /\ registrations = 3
    /\ fact_check_tools["perplexity"].name = "custom_async"
    /\ "custom" \in DOMAIN fact_check_tools
    /\ fact_check_tools["custom"].name = "custom_sync"
    /\ fact_check_tools["google"].name = "google_claim_check"

\* ------------------------------------- properties of two concurrent calls
\* C20: the limiter belongs to one call of verify_multiple_claims.  With two
\* calls running, each call counts its own slots: its running tasks never
\* outnumber its concurrency_limit and its semaphore holds its own number of
\* free slots; and a task that waits while its own call has a free slot can
\* be admitted at once, however many tasks of the other call are running.
C20_LimiterPerCall ==
    \A c \in DOMAIN pc :
       pc[c] # "idle" =>
          /\ Cardinality(Running(c)) <= concurrency_limit[c]
          /\ semaphore[c] = concurrency_limit[c] - Cardinality(Running(c))
          /\ \A i \in DOMAIN task[c] :
                (/\ task[c][i] = "waiting"
                 /\ Cardinality(Running(c)) < concurrency_limit[c]) =>
                   ENABLED TaskAcquire(c, i)

\* C20 witness: both calls are running; call 1 has its single slot taken and
\* a task waiting, while call 2 runs two tasks at once.
C20_Witness ==
    /\ DOMAIN pc = {1, 2}
    /\ pc[1] = "gathering" /\ pc[2] = "gathering"
    /\ concurrency_limit[1] = 1
    /\ Cardinality(Running(1)) = 1
    /\ \E i \in DOMAIN task[1] : task[1][i] = "waiting"
    /\ concurrency_limit[2] = 2
    /\ Cardinality(Running(2)) = 2


\* ------------------------------ properties of the results of the verifiers
IsVerifySingle == vf_tool = "verify_single_claim"

\* C21: every VerificationResult a call of verify_single_claim,
\* google_claim_check or perplexity_claim_check returns, on every path, has
\* claim_id = str(claim.id) and claim = claim.content of the claim it was
\* called with.
C21_ResultEchoesClaim ==
    \A r \in vf_result :
       /\ r.claim_id = <<"uuid", vf_claim.id>>
       /\ r.claim = vf_claim.content

\* The second claim has been checked by Perplexity and got its reviews.
C21_Witness ==
    /\ IsPerplexity
    /\ vf_pc = "returned"
    /\ vf_claim.id = 2
    /\ \E r \in vf_result : r.perplexity_claim_reviews # NoneOpt

\* The call ended on a path of the sources: one of the two built-in
\* verifiers, or verify_single_claim without the body of a registered tool.
BuiltinPath ==
    \/ IsPerplexity
    \/ IsGoogle
    \/ IsVerifySingle /\ vf_how \in {"unknown_tool", "key_error", "type_error", "raised"}

\* C24: a result of the built-in paths carries reviews of at most one
\* provider, and when its error is set both review fields are none.
C24_OneProviderErrorAlone ==
    BuiltinPath =>
      \A r \in vf_result :
         /\ r.google_claim_reviews = NoneOpt \/ r.perplexity_claim_reviews = NoneOpt
         /\ r.error # NoneOpt =>
               /\ r.google_claim_reviews = NoneOpt
               /\ r.perplexity_claim_reviews = NoneOpt

\* Perplexity answered with an empty list of reviews and the call returned
\* its error result.
C24_Witness ==
    /\ IsPerplexity
    /\ vf_pc = "returned"
    /\ vf_how = "no_reviews"
    /\ \E r \in vf_result : r.error # NoneOpt

LastAnswer == vf_history[Len(vf_history)]
PxAnswered(values, cits) ==
    /\ IsPerplexity
    /\ VfEnded
    /\ vf_history # <<>>
    /\ LastAnswer.kind = "content"
    /\ LastAnswer.content.syntax = "valid"
    /\ LastAnswer.content.value \in values
    /\ LastAnswer.citations \in cits
CitationsAre(c) ==
    /\ vf_pc = "returned"
    /\ \A r \in vf_result :
          /\ r.error = NoneOpt
          /\ r.perplexity_claim_reviews # NoneOpt
          /\ \A rv \in r.perplexity_claim_reviews : rv.citations = c
FailedWith(e) ==
    /\ vf_pc = "returned"
    /\ \A r \in vf_result : r.error = {<<"Error during fact-check: ", e>>}

\* C25: a non-empty citation list of the response replaces the citations of
\* the payload before validation; without response citations the payload's
\* own citations field is validated as parsed; a payload that is not a
\* mapping with claim_reviews is a validation failure whatever the response
\* citations are.
C25_CitationsMerged ==
    /\ PxAnswered({PxReviews, PxReviewsCited, PxBadCited}, {{<<JStr("r")>>}})
          => CitationsAre({<<JStr("r")>>})
    /\ PxAnswered({PxReviewsCited}, {{}, {<<>>}}) => CitationsAre({<<JStr("p")>>})
    /\ PxAnswered({PxReviews}, {{}, {<<>>}}) => CitationsAre({})
    /\ PxAnswered({PxBadCited}, {{}, {<<>>}}) => FailedWith("ValueError")
    /\ PxAnswered({PxNoField, PxBareList}, {{}, {<<>>}, {<<JStr("r")>>}})
          => FailedWith("ValueError")

\* A payload with its own citations came with response citations, and the
\* result carries those of the response.
C25_Witness ==
    /\ PxAnswered({PxReviewsCited}, {{<<JStr("r")>>}})
    /\ CitationsAre({<<JStr("r")>>})

\* C26: with FACT_CHECK_TOOL naming a built-in tool, the call of the tool in
\* verify_single_claim is accepted by the tool's signature: the call does not
\* end with the TypeError of a refused argument list.
C26_BuiltinCallAccepted ==
    ( /\ IsVerifySingle
      /\ VfEnded
      /\ FACT_CHECK_TOOL \in {"google", "perplexity"} )
    => /\ vf_how # "type_error"
       /\ \A r \in vf_result : r.error # {<<"TypeError">>}


\* ---------------------------------------------------------- split_message
\* One call of split_message, for every text up to MaxTextLen characters and
\* every max_length from 1 to MaxSplitLength.
SplitInit ==
    /\ ExInit
    /\ FcInit(SpecCalls, {"perplexity"})
    /\ VfInit({{}})
    /\ PrInit
    /\ HInit
    /\ sm_pc = "idle"
    /\ sm_text \in SmTexts
    /\ sm_max_length \in 1..MaxSplitLength
    /\ sm_chunks = <<>>

SplitNext == SplitMessage

SpecSplit == SplitInit /\ [][SplitNext]_vars

\* C23: for every text and every max_length >= 1, every chunk split_message
\* returns has at most max_length characters, also when a single line or a
\* single word is longer than max_length.
C23_ChunksWithinLimit ==
    sm_pc = "returned" =>
      \A i \in DOMAIN sm_chunks : Len(sm_chunks[i]) <= sm_max_length


\* ------------------------------------ verify_multiple_claims: termination
\* One call of verify_multiple_claims with a non-empty list of claims and a
\* limit from 0 on; an asynchronous tool is registered as "custom".  The
\* event loop runs every task that can run (a task that can take a slot takes
\* it, a finished gather returns), and every awaited tool call eventually
\* returns or raises.
LiveInit ==
    /\ ExInit
    /\ VfInit({{}})
    /\ AuxInit
    /\ FcInitIn(SpecCalls, ConfigNames,
                register_fact_check_tool(BuiltinTools, "custom", custom_async), 1)

LiveNext ==
    \/ \E c \in DOMAIN pc, n \in 1..LiveMaxClaims, limit \in 0..LiveMaxLimit :
         CallVerifyMultipleClaims(c, n, limit)
    \/ \E c \in DOMAIN pc : \E i \in DOMAIN task[c] : TaskAcquire(c, i)
    \/ \E c \in DOMAIN pc : \E i \in DOMAIN task[c], out \in ToolOutcomes :
         TaskResume(c, i, out)
    \/ \E c \in DOMAIN pc : GatherReturn(c)

SpecLive ==
    /\ LiveInit
    /\ [][LiveNext]_vars
    /\ WF_vars(\E c \in DOMAIN pc : \E i \in DOMAIN task[c] : TaskAcquire(c, i))
    /\ WF_vars(\E c \in DOMAIN pc : \E i \in DOMAIN task[c], out \in ToolOutcomes :
                 TaskResume(c, i, out))
    /\ WF_vars(\E c \in DOMAIN pc : GatherReturn(c))

\* C27: a call of verify_multiple_claims with a non-empty list of claims
\* eventually returns when concurrency_limit >= 1; with concurrency_limit = 0
\* no task is ever admitted, no result is produced, nothing is raised and the
\* call never returns.
C27_ReturnsIffLimitPositive ==
    /\ [](\A c \in SpecCalls :
            (pc[c] # "idle" /\ concurrency_limit[c] = 0) =>
               /\ pc[c] = "gathering"
               /\ results[c] = <<>>
               /\ \A i \in DOMAIN task[c] : task[c][i] = "waiting")
    /\ \A c \in SpecCalls :
          (pc[c] = "gathering" /\ concurrency_limit[c] >= 1) ~> (pc[c] = "returned")

\* Two claims were verified through one slot and the call returned.
C27_Witness ==
    \E c \in SpecCalls :
       /\ pc[c] = "returned"
       /\ concurrency_limit[c] = 1
       /\ Len(claims[c]) = 2
       /\ Len(results[c]) = 2


\* --------------------------------------------------------- reload_prompts
\* Calls of reload_prompts, forced and not, while time passes; at the first
\* call the cache is empty or holds what the startup load stored
\* (main.py:107-120), and _last_reload_time is datetime.min.
PromptsInit ==
    ExInit /\ FcInit(SpecCalls, {"perplexity"}) /\ VfInit(SUBSET PromptNames) /\ AuxInit

PromptsNext ==
    \/ \E force \in BOOLEAN, loadable \in SUBSET PromptNames :
         pr_contacts < MaxPromptLoads /\ ReloadPrompts(force, loadable)
    \/ Tick

SpecPrompts == PromptsInit /\ [][PromptsNext]_vars

\* C30: a reload in which no prompt can be loaded raises and leaves the cache
\* and the last-reload time as they were; the two are replaced, together,
\* only by a load that returned at least one prompt; a reload that is not
\* forced asks the prompt service only when the cache is empty or older than
\* the reload interval.
C30_ReloadAllOrNothing ==
    [][\A force \in BOOLEAN, loadable \in SUBSET PromptNames :
         ReloadPrompts(force, loadable) =>
           LET asked == pr_contacts' # pr_contacts
               stale == \/ last_reload_time = {}
                        \/ \E l \in last_reload_time : now - l > 1
           IN /\ (asked /\ loadable = {}) =>
                    /\ pr_pc' = "raised"
                    /\ loaded_prompts' = loaded_prompts
                    /\ last_reload_time' = last_reload_time
              /\ (asked /\ loadable # {}) =>
                    /\ pr_pc' = "returned"
                    /\ loaded_prompts' = loadable
                    /\ last_reload_time' = {now}
              /\ ~asked =>
                    /\ pr_pc' = "returned"
                    /\ loaded_prompts' = loaded_prompts
                    /\ last_reload_time' = last_reload_time
              /\ (asked /\ ~force) => (loaded_prompts = {} \/ stale)
              /\ (~asked) => (~force /\ loaded_prompts # {} /\ ~stale)
      ]_vars

\* A reload failed after an earlier one had filled the cache: the cache and
\* the time of the earlier reload are still there.
C30_Witness ==
    /\ pr_pc = "raised"
    /\ pr_contacts = 2
    /\ loaded_prompts # {}
    /\ last_reload_time # {}


\* ------------------------------------------------- the results response
\* The block that builds and sends the results response (messages.py:148-213)
\* as a function of processed_session: one run for every session of
\* RenderSessions, entered after the claims-found reply.
RenderInit ==
    /\ ExInit
    /\ FcInit(SpecCalls, {"perplexity"})
    /\ VfInit({{}})
    /\ PrInit
    /\ SmInit
    /\ h_pc = "processing"
    /\ h_replies = <<"claims_found">>
    /\ h_processed \in RenderSessions
    /\ h_response = <<>>

RenderNext == SendResults

SpecRender == RenderInit /\ [][RenderNext]_vars

Rendered == h_pc = "done" /\ "results" \in {h_replies[k] : k \in DOMAIN h_replies}
ResultsOfClaim(i) ==
    {r \in {h_processed.verification_results[k] :
               k \in DOMAIN h_processed.verification_results} :
       r.claim_id = <<"uuid", h_processed.claims[i].id>>}
HasReviews(r) ==
    \/ r.google_claim_reviews \notin {{}, {<<>>}}
    \/ \E rv \in r.perplexity_claim_reviews : rv.claim_reviews # <<>>
\* The lines of the response written for claim i: from its claim line up to
\* the claim line of the next claim.
SectionOf(i) ==
    LET n == Len(h_processed.claims)
        mark(j) == IF n > 1 THEN j ELSE 0
        starts(j) == {k \in DOMAIN h_response :
                        h_response[k].t = "claim" /\ h_response[k].idx = mark(j)}
    IN {k \in DOMAIN h_response :
          /\ \E a \in starts(i) : a <= k
          /\ i < n => \A b \in starts(i + 1) : k < b}
LineIn(i, t) == \E k \in SectionOf(i) : h_response[k].t = t

\* C22: in the results response a claim whose result carries an error and no
\* reviews, and a claim with no matching result, is presented with the
\* 'no reliable information' text, and no line carries the error text of a
\* result.
C22_ErrorShownAsNoInfo ==
    Rendered =>
      /\ \A i \in DOMAIN h_processed.claims :
            ( \/ ResultsOfClaim(i) = {}
              \/ \A r \in ResultsOfClaim(i) : r.error # {} /\ ~HasReviews(r) )
            => /\ LineIn(i, "claim")
               /\ LineIn(i, "no_info")
      /\ \A k \in DOMAIN h_response :
            /\ h_response[k].t # "error"
            /\ \A r \in ResultsOfClaim(1) \cup ResultsOfClaim(Len(h_processed.claims)) :
                  \A e \in r.error : h_response[k].text # e[1]

\* A session of two claims, the first with an error result and the second
\* with no result, has been answered.
C22_Witness ==
    /\ Rendered
    /\ Len(h_processed.claims) = 2
    /\ \E r \in ResultsOfClaim(1) : r.error # {}
    /\ ResultsOfClaim(2) = {}

HandlerInit == ExtractInit

HandlerNext ==
    \/ \E prompt \in PromptOutcomes : ExtractCall("text", prompt)
    \/ \E resp \in Responses : ExtractResume(resp)
    \/ \E tg \in {"ok", "error"} : HandlerContinue(tg)
    \/ HandlerAgain

SpecHandler == HandlerInit /\ [][HandlerNext]_vars

\* C28: a message whose extraction yields at least one claim, with no
\* Telegram API error, is answered with the claims-found reply and then the
\* results response; the handling does not end with the 'unexpected error'
\* reply.
C28_ResultsFollowClaims ==
    ( /\ h_pc = "done"
      /\ ex_pc = "returned"
      /\ ex_result # <<>>
      /\ \A k \in DOMAIN h_replies : h_replies[k] # "telegram_error" )
    => /\ h_replies = <<"claims_found", "results">>
       /\ \A k \in DOMAIN h_replies : h_replies[k] # "unexpected_error"

=============================================================================
